---- MODULE Spec2Model ----
(***************************************************************************)
(* bevy-node-plumber: provider readiness state machine, deferred sub-graph *)
(* assembly and the per-frame schedule that drives them.                   *)
(*                                                                         *)
(* One frame ("tick") is one run of the render app's ExtractSchedule       *)
(* followed by the Render schedule:                                        *)
(*   ExtractSchedule : the chain UpdateProviders -> UpdateGraph ->         *)
(*                     DeployNodes (lib.rs 53-62), and                     *)
(*                     SubGraph::extract_to_render_world (graph.rs 23),    *)
(*                     which is not ordered against the chain;             *)
(*   Render          : SubGraphCache::update_system (graph.rs 24-27).      *)
(***************************************************************************)
EXTENDS Integers, Sequences, FiniteSets, Bags, TLC

VARIABLES
    nodeState,      \* ComputeNode.state of every provider entity
    changed,        \* Changed<ComputeNode> as seen by update_graph_from_providers_in_main_world
    pipelineCache,  \* PipelineCache: state of the compile job of every provider
    queueCount,     \* number of queue_compute_pipeline calls per provider
    mainWorld,      \* main-world SubGraph components, keyed by entity
    subGraphCache,  \* SubGraphCache.0: render-world SubGraph copies, keyed by entity
    queue,          \* ProviderToRenderGraphQueue.queue
    renderGraph,    \* the live RenderGraph of the render world
    tick,           \* number of frames started (saturating at MaxTick)
    step,           \* 0 between frames, else index of the system to run next
    extractPos,     \* where extract_to_render_world runs relative to the chain
    summaries,      \* the providers_state_summary values SubGraphCache::update evaluated, per
                    \* sub-graph, oldest first (the first MaxTick of them)
    spawnTick,      \* frame count at which the sub-graph was spawned
    deployTick,     \* frame whose merge step deployed the sub-graph (0: none yet)
    deployCount,    \* number of add_sub_graph/add_node(runner) calls per sub-graph
    liveUpdated,    \* per sub-graph, whether a queued provider update reached its live graph
    despawnTick,    \* per provider, the frame count at which its entity was destroyed
                    \* (-1 while it exists)
    fnProviders,    \* input of the function-level checks: provider descriptors
    fnOrder,        \* input of the function-level checks: HashMap iteration order
    fnNode,         \* input of the function-level checks: a ComputeNodeState
    fnSummary,      \* result of providers_state_summary on fnProviders
    fnState,        \* result of ComputeNode::state on fnNode
    obState,        \* OutputBuffer.state: the OutputBufferState behind the mutex
    obLock,         \* holder of the OutputBuffer.state mutex ("free" if none)
    obSize,         \* size of every readback buffer (0: not allocated)
    obContent,      \* per readback buffer, the execution whose copy wrote it last
    obDevice,       \* device-side map status of every readback buffer
    obRequests,     \* map requests whose completion callback has not run yet
    obCb,           \* the request whose completion callback holds the mutex
    obRuns,         \* number of executions of the output node
    obAllocated,    \* number of readback buffers allocated
    obIssued,       \* number of map requests issued
    obCompleted,    \* execution whose own map request completed with success (0: none)
    obTakes,        \* takes that returned a buffer since the last execution
    takePc,         \* position of every taker inside take_buffer
    takeResult,     \* what the last take_buffer call of every taker returned
    takeAs,         \* what the last take_buffer_as call that got the lock returned
    rnTrigger,      \* SubGraphRunnerNode.trigger: "Always" or "Manual"
    rnFlag,         \* the AtomicBool shared through SubGraphTrigger::Manual
    rnNodeInputs,   \* SubGraphRunnerNode.node_inputs (slot names)
    rnSubGraph,     \* what the live graph holds under sub_graph_name
    rnPc,           \* position of every run of the runner node
    rnResult,       \* what the last run of every runner thread returned
    rnSets,         \* number of times the host set the flag
    rnPass,         \* runs that passed the trigger gate
    rnSkip,         \* runs that returned at the trigger gate
    rnExec,         \* run_sub_graph calls made
    rnFail,         \* runs that passed the gate and did not call run_sub_graph
    rnSinceSet,     \* gate evaluations since the flag was last set
    rcInfo,         \* bind_resource_info of the node
    rcCache,        \* bind_resource_cache: slot index -> (descriptor, instance)
    rcCreated,      \* number of device resources created so far
    rcLast,         \* the last get_output_resource call and what it returned
    rcReturned,     \* per slot, the descriptor and instance of the last successful request
    rcRetired,      \* instances that were returned once and have been replaced since
    rcMadeFrom,     \* per created instance, the descriptor and slot it was created for
    rcBound,        \* bind-group entries of the last execution, by binding name
    rcOutputs,      \* output slot values set by the last execution, by slot name
    rcInputs,       \* input slot values of the last execution, by slot name
    rcRun,          \* the execution between set_bind_group and set_output_slots
    bdBuilder,      \* the builder the author works with ("None" before one is created)
    bdFields,       \* the Option fields of the builder that are Some
    bdBindResources,\* ComputeNodeBuilder.bind_resources
    bdDiscarded,    \* bind resources finished with add_input / add_input_output
    bdNodes,        \* node names of SubGraphBuilder.graph
    bdNodeEdges,    \* SubGraphBuilder.node_edges
    bdResult,       \* what build returned
    bdState,        \* ComputeNode.state of the node that build returned
    bdGraphNode,    \* the node add_node_to_graph installed for the built provider
    bdRun,          \* what the last run of the installed node returned and logged
    bdGraph         \* node name -> bind_resource_cache held by the node installed under it

vars == <<nodeState, changed, pipelineCache, queueCount, mainWorld, subGraphCache,
          queue, renderGraph, tick, step, extractPos, summaries, spawnTick, deployTick,
          deployCount, liveUpdated, despawnTick, fnProviders, fnOrder, fnNode, fnSummary, fnState,
          obState, obLock, obSize, obContent, obDevice, obRequests, obCb, obRuns,
          obAllocated, obIssued, obCompleted, obTakes, takePc, takeResult, takeAs,
          rnTrigger, rnFlag, rnNodeInputs, rnSubGraph, rnPc, rnResult, rnSets, rnPass,
          rnSkip, rnExec, rnFail, rnSinceSet,
          rcInfo, rcCache, rcCreated, rcLast, rcReturned, rcRetired, rcMadeFrom, rcBound,
          rcOutputs, rcInputs, rcRun,
          bdBuilder, bdFields, bdBindResources, bdDiscarded, bdNodes, bdNodeEdges,
          bdResult, bdState, bdGraphNode, bdRun,
                   bdGraph>>

sysVars == <<nodeState, changed, pipelineCache, queueCount, mainWorld, subGraphCache,
             queue, renderGraph, tick, step, extractPos, summaries, spawnTick, deployTick,
             deployCount, liveUpdated, despawnTick>>

fnVars == <<fnProviders, fnOrder, fnNode, fnSummary, fnState>>

obVars == <<obState, obLock, obSize, obContent, obDevice, obRequests, obCb, obRuns,
            obAllocated, obIssued, obCompleted, obTakes, takePc, takeResult, takeAs>>

rnVars == <<rnTrigger, rnFlag, rnNodeInputs, rnSubGraph, rnPc, rnResult, rnSets, rnPass,
            rnSkip, rnExec, rnFail, rnSinceSet>>

rcVars == <<rcInfo, rcCache, rcCreated, rcLast, rcReturned, rcRetired, rcMadeFrom, rcBound,
            rcOutputs, rcInputs, rcRun>>

bdVars == <<bdBuilder, bdFields, bdBindResources, bdDiscarded, bdNodes, bdNodeEdges,
            bdResult, bdState, bdGraphNode, bdRun,
                   bdGraph>>

(***************************************************************************)
(* Bounds and finite domains                                               *)
(***************************************************************************)
MaxTick == 4
MaxDespawned == 1                       \* provider entities destroyed in one behaviour

Providers == {"p1", "p2"}
SubGraphs == {"g1"}
ErrMessages == {"e1", "e2"}
FnEntities == {"p1", "p2", "p3"}

MaxRuns == 3                            \* executions of the output node
Sizes == {1, 2}                         \* sizes of the upstream input buffer
Takers == {"t1", "t2"}                  \* host threads calling take_buffer
Buffers == 1..MaxRuns                   \* readback buffers, in allocation order

MaxRunnerRuns == 3                      \* runs of the runner node
MaxSets == 2                            \* times the host sets the manual flag
Runners == {"r1", "r2"}                 \* threads running a runner node of one flag
SlotNames == {"a", "b"}                 \* input slot names
GraphName == "g1"                       \* SubGraphRunnerNode.sub_graph_name

MaxCreated == 3                         \* device resources created by one node

MaxBindResources == 2                   \* bind resources added to one compute node builder
MaxDiscarded == 1                       \* add_input / add_input_output calls on one builder
MaxNodeEdges == 2                       \* node edges added to one sub-graph builder
SlotTypes == {"Buffer", "TextureView"}  \* SlotType of an Input or InputOutput resource
BuilderNodes == {"n1", "n2"}            \* node names used with a sub-graph builder

None == "None"

\* A result that has not been computed yet.
NoResult == [tag |-> "None", msg |-> ""]

(***************************************************************************)
(* ComputeNodeState (compute.rs 28-45) and ProviderState (graph.rs 38-45)  *)
(***************************************************************************)
Creating == [tag |-> "Creating", msg |-> ""]
PipelineQueued == [tag |-> "PipelineQueued", msg |-> ""]
PipelineCached == [tag |-> "PipelineCached", msg |-> ""]
ReadyToRun == [tag |-> "ReadyToRun", msg |-> ""]
NodeErr(m) == [tag |-> "Err", msg |-> m]

ComputeNodeState ==
    {Creating, PipelineQueued, PipelineCached, ReadyToRun} \cup {NodeErr(m) : m \in ErrMessages}

Created == [tag |-> "Created", msg |-> ""]
Updating == [tag |-> "Updating", msg |-> ""]
CanCreateNode == [tag |-> "CanCreateNode", msg |-> ""]
Err(m) == [tag |-> "Err", msg |-> m]

ProviderState == {Created, Updating, CanCreateNode} \cup {Err(m) : m \in ErrMessages}

\* CachedPipelineState as returned by PipelineCache::get_compute_pipeline_state
JobNone == [tag |-> "None", msg |-> ""]
JobPending == [tag |-> "Pending", msg |-> ""]
JobOk == [tag |-> "Ok", msg |-> ""]
JobErr(m) == [tag |-> "Err", msg |-> m]

Orders(S) == {o \in [1..Cardinality(S) -> S] : \A i, j \in 1..Cardinality(S) : o[i] = o[j] => i = j}

Min(a, b) == IF a < b THEN a ELSE b

EmptyMap == [x \in {} |-> None]

(***************************************************************************)
(* Provider readiness state machine (node/compute.rs)                      *)
(***************************************************************************)

\* As State, with PipelineCached already reported as ready.
StateReadyWhenCached(s) ==
    CASE s.tag = "ReadyToRun" -> CanCreateNode
      [] s.tag = "PipelineCached" -> CanCreateNode
      [] s.tag = "Err" -> Err(s.msg)
      [] OTHER -> Updating

\* ComputeNode::state: the coarse ProviderState of a readiness state.
State(s) ==
    CASE s.tag = "ReadyToRun" -> CanCreateNode
      [] s.tag = "Err" -> Err(s.msg)
      [] OTHER -> Updating

\* As UpdateState, building the node in the same call that sees the pipeline compiled.
UpdateStateTwoStages(s, job) ==
    CASE s.tag = "Creating" -> PipelineQueued
      [] s.tag = "PipelineQueued" ->
            (CASE job.tag = "Ok" -> ReadyToRun
               [] job.tag = "Err" -> NodeErr(job.msg)
               [] OTHER -> s)
      [] s.tag = "PipelineCached" -> ReadyToRun
      [] OTHER -> s

\* As UpdateState, starting over from Creating after a compile error.
UpdateStateRetry(s, job) ==
    CASE s.tag = "Creating" -> PipelineQueued
      [] s.tag = "PipelineQueued" ->
            (CASE job.tag = "Ok" -> PipelineCached
               [] job.tag = "Err" -> NodeErr(job.msg)
               [] OTHER -> s)
      [] s.tag = "PipelineCached" -> ReadyToRun
      [] s.tag = "Err" -> Creating
      [] OTHER -> s

\* As UpdateState, moving on from PipelineQueued while the job is still pending.
UpdateStateNoWait(s, job) ==
    CASE s.tag = "Creating" -> PipelineQueued
      [] s.tag = "PipelineQueued" ->
            (CASE job.tag = "Err" -> NodeErr(job.msg)
               [] OTHER -> PipelineCached)
      [] s.tag = "PipelineCached" -> ReadyToRun
      [] OTHER -> s

\* ComputeNode::update_state: the value assigned to mut_self.state, or the state
\* itself on the two paths that return without assigning. job is the answer of
\* PipelineCache::get_compute_pipeline_state for the provider's pipeline id.
UpdateState(s, job) ==
    CASE s.tag = "Creating" -> PipelineQueued
      [] s.tag = "PipelineQueued" ->
            (CASE job.tag = "Ok" -> PipelineCached
               [] job.tag = "Err" -> NodeErr(job.msg)
               [] OTHER -> s)
      [] s.tag = "PipelineCached" -> ReadyToRun
      [] OTHER -> s

\* Whether update_state reaches the assignment to mut_self.state (which marks the
\* component as changed) instead of one of the two early returns.
StateAssigned(s, job) ==
    \/ s.tag \in {"Creating", "PipelineCached"}
    \/ s.tag = "PipelineQueued" /\ job.tag \in {"Ok", "Err"}

\* The Creating arm calls pipeline_cache.queue_compute_pipeline.
QueuesPipeline(s) == s.tag = "Creating"

\* Provider::add_node_to_graph: the node a provider installs under its node name.
NodeOf(s) == IF s.tag = "ReadyToRun" THEN "ComputeNodeImpl" ELSE "DummyNode"

\* As AddOrReplaceGraphNode, building the node table anew around the one node.
AddOrReplaceGraphNodeAlone(nodes, name, node) == (name :> node)

\* add_or_replace_graph_node: replace the node of that name, or add it.
AddOrReplaceGraphNode(nodes, name, node) == (name :> node) @@ nodes

(***************************************************************************)
(* Sub-graph readiness aggregation (graph.rs)                              *)
(***************************************************************************)
RECURSIVE SummaryLoop(_, _, _, _, _)
SummaryLoop(providers, order, i, has_created, has_updating) ==
    IF i > Len(order)
    THEN IF has_created THEN Created
         ELSE IF has_updating THEN Updating
         ELSE CanCreateNode
    ELSE LET st == providers[order[i]].state IN
         IF st.tag = "Err" THEN Err(st.msg)
         ELSE SummaryLoop(providers, order, i + 1,
                          has_created \/ st.tag = "Created",
                          has_updating \/ st.tag = "Updating")

\* As SummaryLoop, with Updating tested before Created after the loop.
RECURSIVE SummaryLoopUpdatingFirst(_, _, _, _, _)
SummaryLoopUpdatingFirst(providers, order, i, has_created, has_updating) ==
    IF i > Len(order)
    THEN IF has_updating THEN Updating
         ELSE IF has_created THEN Created
         ELSE CanCreateNode
    ELSE LET st == providers[order[i]].state IN
         IF st.tag = "Err" THEN Err(st.msg)
         ELSE SummaryLoopUpdatingFirst(providers, order, i + 1,
                          has_created \/ st.tag = "Created",
                          has_updating \/ st.tag = "Updating")

\* As SummaryLoop, with the Created arm of the match missing.
RECURSIVE SummaryLoopNoCreated(_, _, _, _, _)
SummaryLoopNoCreated(providers, order, i, has_created, has_updating) ==
    IF i > Len(order)
    THEN IF has_created THEN Created
         ELSE IF has_updating THEN Updating
         ELSE CanCreateNode
    ELSE LET st == providers[order[i]].state IN
         IF st.tag = "Err" THEN Err(st.msg)
         ELSE SummaryLoopNoCreated(providers, order, i + 1,
                          has_created,
                          has_updating \/ st.tag = "Updating")

ProvidersStateSummaryUpdatingFirst(providers, order) ==
    SummaryLoopUpdatingFirst(providers, order, 1, FALSE, FALSE)

ProvidersStateSummaryNoCreated(providers, order) ==
    SummaryLoopNoCreated(providers, order, 1, FALSE, FALSE)

\* SubGraph::providers_state_summary; order is the iteration order of the
\* providers HashMap.
ProvidersStateSummary(providers, order) ==
    SummaryLoop(providers, order, 1, FALSE, FALSE)

(***************************************************************************)
(* Sub-graphs (graph.rs, builder.rs)                                       *)
(***************************************************************************)

\* ProviderDescriptor.name: the node name under which a provider is added.
NodeName(p) == "node_" \o p

\* SubGraphDeployState
NoGraph == [nodes |-> EmptyMap, input_slots |-> <<>>, edges |-> {}]
Queued(edges, graph) == [tag |-> "Queued", edges |-> edges, graph |-> graph]
\* As MovedToRenderWorld, with the main-world copy still counted as Queued.
MovedButQueued == [tag |-> "Queued", edges |-> <<>>, graph |-> NoGraph]
MovedToRenderWorld == [tag |-> "MovedToRenderWorld", edges |-> <<>>, graph |-> NoGraph]
Deployed == [tag |-> "Deployed", edges |-> <<>>, graph |-> NoGraph]

\* Edge, as buffered by SubGraphBuilder::add_outer_*_edge
InputSlotEdge(output_node, output_slot, input_slot) ==
    [kind |-> "InputSlotEdge", node |-> output_node, output_slot |-> output_slot,
     input_slot |-> input_slot]
InputNodeEdge(output_node) ==
    [kind |-> "InputNodeEdge", node |-> output_node, output_slot |-> "", input_slot |-> ""]
OutputNodeEdge(input_node) ==
    [kind |-> "OutputNodeEdge", node |-> input_node, output_slot |-> "", input_slot |-> ""]

\* The outer edges and graph inputs the author declares for each sub-graph.
OuterEdges(g) ==
    <<InputSlotEdge("outer_src", "out", "in"), InputNodeEdge("outer_src"),
      OutputNodeEdge("outer_dst")>>

InputSlots(g) == <<"in">>

\* The node edges the author declares inside the sub-graph (add_node_edge): the
\* nodes of the providers p1 and p2 are chained when both are part of it.
InnerEdges(ps) ==
    IF {"p1", "p2"} \subseteq ps
    THEN {[output_node |-> NodeName("p1"), input_node |-> NodeName("p2")]}
    ELSE {}

\* SubGraphBuilder::add_node_provider followed by SubGraphBuilder::build: every
\* provider is added to the embryonic graph with its current node and a
\* descriptor in the default state.
BuildSubGraph(g, ps, states) ==
    [name |-> g,
     providers |-> [p \in ps |-> [name |-> NodeName(p), ty |-> "ComputeNode",
                                  state |-> Created]],
     graph |-> Queued(OuterEdges(g),
                      [nodes |-> [n \in {NodeName(p) : p \in ps} |->
                                    NodeOf(states[CHOOSE p \in ps : NodeName(p) = n])],
                       input_slots |-> InputSlots(g),
                       edges |-> InnerEdges(ps)])]

\* As LiveEdge, with the edge out of the runner added as an edge into it.
LiveEdgeAllInto(edge, node_name) ==
    CASE edge.kind = "InputSlotEdge" ->
            [kind |-> "slot", output_node |-> edge.node, output_slot |-> edge.output_slot,
             input_node |-> node_name, input_slot |-> edge.input_slot]
      [] OTHER ->
            [kind |-> "node", output_node |-> edge.node, output_slot |-> "",
             input_node |-> node_name, input_slot |-> ""]

\* An edge of the live graph as SubGraphCache::update adds it for runner node_name.
LiveEdge(edge, node_name) ==
    CASE edge.kind = "InputSlotEdge" ->
            [kind |-> "slot", output_node |-> edge.node, output_slot |-> edge.output_slot,
             input_node |-> node_name, input_slot |-> edge.input_slot]
      [] edge.kind = "InputNodeEdge" ->
            [kind |-> "node", output_node |-> edge.node, output_slot |-> "",
             input_node |-> node_name, input_slot |-> ""]
      [] edge.kind = "OutputNodeEdge" ->
            [kind |-> "node", output_node |-> node_name, output_slot |-> "",
             input_node |-> edge.node, input_slot |-> ""]

LiveEdges(edges, node_name) ==
    LET es == {LiveEdge(edges[i], node_name) : i \in DOMAIN edges}
    IN [e \in es |-> Cardinality({i \in DOMAIN edges : LiveEdge(edges[i], node_name) = e})]

\* As ShouldDeploy, without the deploy-state test.
ShouldDeployAgain(sub_graph, order) ==
    ProvidersStateSummary(sub_graph.providers, order) = CanCreateNode

\* As ShouldDeploy, deploying as soon as no provider reports an error.
ShouldDeployNoErr(sub_graph, order) ==
    /\ sub_graph.graph.tag = "Queued"
    /\ ProvidersStateSummary(sub_graph.providers, order).tag # "Err"

\* The condition under which SubGraphCache::update deploys a sub-graph.
ShouldDeploy(sub_graph, order) ==
    /\ sub_graph.graph.tag = "Queued"
    /\ ProvidersStateSummary(sub_graph.providers, order) = CanCreateNode

(***************************************************************************)
(* The frame schedule (lib.rs 47-63, graph.rs 18-28)                       *)
(***************************************************************************)
Chain == <<"UpdateProviders", "UpdateGraph", "DeployNodes">>

StepOrder(e) ==
    SubSeq(Chain, 1, e) \o <<"Extract">> \o SubSeq(Chain, e + 1, Len(Chain)) \o <<"Merge">>

LastStep == Len(Chain) + 2

Current == IF step = 0 THEN "Main" ELSE StepOrder(extractPos)[step]

Advance ==
    /\ step' = IF step = LastStep THEN 0 ELSE step + 1
    /\ extractPos' = IF step = LastStep THEN 0 ELSE extractPos

OrderOf(perm, providers) ==
    LET In(p) == p \in DOMAIN providers IN SelectSeq(perm, In)

(***************************************************************************)
(* Values of the output readback, the runner node and the resource cache   *)
(***************************************************************************)
\* OutputBufferState (output.rs 36-44); buf is 0 where the variant holds no buffer.
NotCreated == [tag |-> "NotCreated", buf |-> 0]
ReadyToMap(b) == [tag |-> "ReadyToMap", buf |-> b]
WaitingForMap(b) == [tag |-> "WaitingForMap", buf |-> b]
Mapped(b) == [tag |-> "Mapped", buf |-> b]
MappingError == [tag |-> "MappingError", buf |-> 0]

\* Result<Buffer, OutputError> of take_buffer (output.rs 24-34); NoTake: not called yet.
NoTake == [tag |-> "None", buf |-> 0]
TakeOk(b) == [tag |-> "Ok", buf |-> b]
MappedBufferNotFound == [tag |-> "MappedBufferNotFound", buf |-> 0]
CannotLock == [tag |-> "CannotLock", buf |-> 0]
BufferReadWriteError == [tag |-> "BufferReadWriteError", buf |-> 0]

\* A map request handed to the device: the buffer it maps, the execution that
\* filled the buffer, and whether the device accepted it (a request for a buffer
\* that is already mapped or being mapped, or that is unmapped before the map
\* completes, can only complete with an error).
MapRequest(id, b, run, live) == [id |-> id, buf |-> b, run |-> run, live |-> live]
NoRequest == [id |-> 0, buf |-> 0, run |-> 0, result |-> "None"]

ObIdle ==
    /\ obState = NotCreated
    /\ obLock = "free"
    /\ obSize = [b \in Buffers |-> 0]
    /\ obContent = [b \in Buffers |-> 0]
    /\ obDevice = [b \in Buffers |-> "unmapped"]
    /\ obRequests = {}
    /\ obCb = NoRequest
    /\ obRuns = 0
    /\ obAllocated = 0
    /\ obIssued = 0
    /\ obCompleted = 0
    /\ obTakes = 0
    /\ takePc = [t \in Takers |-> "idle"]
    /\ takeResult = [t \in Takers |-> NoTake]
    /\ takeAs = NoTake

\* Result<(), NodeRunError> of SubGraphRunnerNode::run together with what the run
\* did: whether it read its inputs, whether it found the sub-graph, whether it
\* called run_sub_graph and with which input values.
RunResult(tag, read, found, executed, input_values, slot_index, slot_name, graph_name) ==
    [tag |-> tag, read |-> read, found |-> found, executed |-> executed,
     input_values |-> input_values, slot_index |-> slot_index, slot_name |-> slot_name,
     graph_name |-> graph_name]
NoRun == RunResult("None", FALSE, FALSE, FALSE, <<>>, 0, "", "")
Skipped == RunResult("Ok", FALSE, FALSE, FALSE, <<>>, 0, "", "")
NotFound == RunResult("Ok", TRUE, FALSE, FALSE, <<>>, 0, "", "")
Executed(input_values) == RunResult("Ok", TRUE, TRUE, TRUE, input_values, 0, "", "")
MissingInput(slot_index, slot_name, graph_name) ==
    RunResult("MissingInput", TRUE, TRUE, FALSE, <<>>, slot_index, slot_name, graph_name)

\* The value the render graph holds in the runner's input slot of a given name.
InputValue(name) == "value_" \o name

\* Slot-name vectors without repetition (SubGraphBuilder keeps graph_inputs in a
\* HashMap keyed by name, builder.rs 337, 431-439).
SlotVectors == UNION {Orders(S) : S \in SUBSET SlotNames}

RnIdle ==
    /\ rnTrigger = "Always"
    /\ rnFlag = FALSE
    /\ rnNodeInputs = <<>>
    /\ rnSubGraph = [registered |-> FALSE, input_slots |-> <<>>]
    /\ rnPc = [r \in Runners |-> "idle"]
    /\ rnResult = [r \in Runners |-> NoRun]
    /\ rnSets = 0
    /\ rnPass = 0
    /\ rnSkip = 0
    /\ rnExec = 0
    /\ rnFail = 0
    /\ rnSinceSet = 0

\* StaticBindResourceCreationDescriptor (resource.rs 24-29): the variant and the
\* fields of the wgpu descriptor that the derived PartialEq compares.
StaticDescriptor(kind, size, usage) == [kind |-> kind, size |-> size, usage |-> usage]
NoDescriptor == StaticDescriptor("None", 0, "")
DescriptorFields == [size : {1024, 2048}, usage : {"STORAGE", "COPY_SRC"}]

\* BindResourceCreationInfo (resource.rs 119-124). strategy and fields matter for
\* Output only: BindResourceCreationStrategy::Static(fields) or FromGraphContext.
BindInfo(name, direction, kind, strategy, fields) ==
    [name |-> name, direction |-> direction, kind |-> kind, strategy |-> strategy,
     fields |-> fields]
NoFields == [size |-> 0, usage |-> ""]

\* render_graph::SlotValue: a resource produced upstream, or one owned by a cache.
Upstream(id) == [src |-> "upstream", id |-> id]
Own(inst) == [src |-> "own", id |-> inst]
UpstreamValues == {Upstream(1), Upstream(2)}

\* One cache entry, and the record of one get_output_resource call.
CacheEntry(desc, inst) == [desc |-> desc, inst |-> inst]
NoEntry == CacheEntry(NoDescriptor, 0)
Request(index, desc, tag, inst, created) ==
    [index |-> index, desc |-> desc, tag |-> tag, inst |-> inst, created |-> created]
NoCall == Request(0, NoDescriptor, "None", 0, FALSE)

\* An execution that has returned from set_bind_group: its graph context, its
\* input slots, the bind-group entries and the error of set_bind_group.
Running(ctx, inputs, values, err) ==
    [ctx |-> ctx, inputs |-> inputs, values |-> values, err |-> err]
NotRunning == Running(NoFields, EmptyMap, EmptyMap, "None")

RcIdle ==
    /\ rcInfo = <<>>
    /\ rcCache = EmptyMap
    /\ rcCreated = 0
    /\ rcLast = NoCall
    /\ rcReturned = EmptyMap
    /\ rcRetired = {}
    /\ rcMadeFrom = EmptyMap
    /\ rcBound = EmptyMap
    /\ rcOutputs = EmptyMap
    /\ rcInputs = EmptyMap
    /\ rcRun = NotRunning

\* BuilderError (builder.rs 40-48) and BuildResult<T> (builder.rs 56).
ValueNotDefined(field) == [kind |-> "ValueNotDefined", field |-> field]
RenderGraphError(error) == [kind |-> "RenderGraphError", field |-> error]
NoError == [kind |-> "None", field |-> ""]

BuildOk(value) == [tag |-> "Ok", error |-> NoError, value |-> <<value>>]
BuildErr(error) == [tag |-> "Err", error |-> error, value |-> <<>>]
NoBuild == [tag |-> "None", error |-> NoError, value |-> <<>>]

\* AddBindResourceInfoBuilder.direction: Option<BuildResult<BindResourceDirection>>
\* (builder.rs 130).  kind is the SlotType of an Input or InputOutput and the
\* descriptor variant of an Output.
NoDirection ==
    [tag |-> "None", error |-> NoError, direction |-> "", kind |-> "",
     strategy |-> "None", fields |-> NoFields]
DirectionOk(direction, kind, strategy, fields) ==
    [tag |-> "Ok", error |-> NoError, direction |-> direction, kind |-> kind,
     strategy |-> strategy, fields |-> fields]
DirectionErr(error) ==
    [tag |-> "Err", error |-> error, direction |-> "", kind |-> "",
     strategy |-> "None", fields |-> NoFields]

\* render_graph::SlotInfo
SlotInfo(name, slot_type) == [name |-> name, slot_type |-> slot_type]

\* A node as the render graph sees it: its type and its declared slots.
GraphNode(type_name, input, output) ==
    [type_name |-> type_name, input |-> input, output |-> output]
NoNode == GraphNode("None", <<>>, <<>>)

\* The outcome of Node::run: the result handed to the graph runner and the
\* level of the message logged on the way.
NodeRun(result, log) == [result |-> result, log |-> log]
NotRun == NodeRun("None", "")

BdIdle ==
    /\ bdBuilder = "None"
    /\ bdFields = {}
    /\ bdBindResources = <<>>
    /\ bdDiscarded = 0
    /\ bdNodes = {}
    /\ bdNodeEdges = <<>>
    /\ bdResult = NoBuild
    /\ bdState = NoResult
    /\ bdGraphNode = NoNode
    /\ bdRun = NotRun
    /\ bdGraph = EmptyMap

FnIdle ==
    /\ fnProviders = EmptyMap
    /\ fnOrder = <<>>
    /\ fnNode = Creating
    /\ fnSummary = NoResult
    /\ fnState = NoResult

SysInit ==
    /\ nodeState = [p \in Providers |-> Creating]
    /\ changed = [p \in Providers |-> TRUE]
    /\ pipelineCache = [p \in Providers |-> JobNone]
    /\ queueCount = [p \in Providers |-> 0]
    /\ mainWorld = EmptyMap
    /\ subGraphCache = EmptyMap
    /\ queue = EmptyMap
    /\ renderGraph = [sub_graphs |-> EmptyMap, nodes |-> EmptyMap, edges |-> EmptyBag]
    /\ tick = 0
    /\ step = 0
    /\ extractPos = 0
    /\ summaries = [g \in SubGraphs |-> <<>>]
    /\ spawnTick = [g \in SubGraphs |-> 0]
    /\ deployTick = [g \in SubGraphs |-> 0]
    /\ deployCount = [g \in SubGraphs |-> 0]
    /\ liveUpdated = [g \in SubGraphs |-> FALSE]
    /\ despawnTick = [p \in Providers |-> -1]

\* The provider's entity has not been destroyed.
Alive(p) == despawnTick[p] = -1

Init ==
    /\ SysInit
    /\ BdIdle
    /\ FnIdle
    /\ ObIdle
    /\ RnIdle
    /\ RcIdle

\* The application builds a sub-graph over some provider entities and spawns it.
SpawnSubGraph(g, ps) ==
    /\ step = 0
    /\ g \notin DOMAIN mainWorld
    /\ \A p \in ps : Alive(p)
    /\ mainWorld' = (g :> BuildSubGraph(g, ps, nodeState)) @@ mainWorld
    /\ spawnTick' = [spawnTick EXCEPT ![g] = tick]
    /\ UNCHANGED <<nodeState, changed, pipelineCache, queueCount, subGraphCache, queue,
                   renderGraph, tick, step, extractPos, summaries, deployTick,
                   deployCount, liveUpdated, despawnTick>>
    /\ UNCHANGED <<fnVars, obVars, rnVars, rcVars, bdVars>>

\* The pipeline compiler finishes a pending job, with success or with an error.
CompilePipeline(p, result) ==
    /\ step = 0
    /\ pipelineCache[p] = JobPending
    /\ pipelineCache' = [pipelineCache EXCEPT ![p] = result]
    /\ UNCHANGED <<nodeState, changed, queueCount, mainWorld, subGraphCache, queue,
                   renderGraph, tick, step, extractPos, summaries, spawnTick, deployTick,
                   deployCount, liveUpdated, despawnTick>>
    /\ UNCHANGED <<fnVars, obVars, rnVars, rcVars, bdVars>>

\* A host system takes mutable access to a provider component, or inserts it
\* again: change detection flags the component as changed for the next run of
\* update_graph_from_providers_in_main_world (Changed<T>, lib.rs 125).
TouchProvider(p) ==
    /\ step = 0
    /\ Alive(p)
    /\ ~changed[p]
    /\ changed' = [changed EXCEPT ![p] = TRUE]
    /\ UNCHANGED <<nodeState, pipelineCache, queueCount, mainWorld, subGraphCache, queue,
                   renderGraph, tick, step, extractPos, summaries, spawnTick, deployTick,
                   deployCount, liveUpdated, despawnTick>>
    /\ UNCHANGED <<fnVars, obVars, rnVars, rcVars, bdVars>>

\* The application destroys the entity of a provider between two frames.
DespawnProvider(p) ==
    /\ step = 0
    /\ Alive(p)
    /\ Cardinality({q \in Providers : ~Alive(q)}) < MaxDespawned
    /\ despawnTick' = [despawnTick EXCEPT ![p] = tick]
    /\ UNCHANGED <<nodeState, changed, pipelineCache, queueCount, mainWorld, subGraphCache,
                   queue, renderGraph, tick, step, extractPos, summaries, spawnTick,
                   deployTick, deployCount, liveUpdated>>
    /\ UNCHANGED <<fnVars, obVars, rnVars, rcVars, bdVars>>

\* The host scheduler starts a frame; the executor settles where the unordered
\* extract system runs relative to the chain.
BeginTick(e) ==
    /\ step = 0
    /\ step' = 1
    /\ extractPos' = e
    /\ tick' = Min(tick + 1, MaxTick)
    /\ UNCHANGED <<nodeState, changed, pipelineCache, queueCount, mainWorld, subGraphCache,
                   queue, renderGraph, summaries, spawnTick, deployTick, deployCount,
                   liveUpdated, despawnTick>>
    /\ UNCHANGED <<fnVars, obVars, rnVars, rcVars, bdVars>>

\* ComputeNode::update_in_render_world: update_state on every provider the
\* query finds.
UpdateProviders ==
    /\ Current = "UpdateProviders"
    /\ nodeState' = [p \in Providers |->
                     IF Alive(p) THEN UpdateState(nodeState[p], pipelineCache[p])
                     ELSE nodeState[p]]
    /\ changed' = [p \in Providers |->
                     changed[p] \/ (Alive(p) /\ StateAssigned(nodeState[p], pipelineCache[p]))]
    /\ pipelineCache' = [p \in Providers |->
                     IF Alive(p) /\ QueuesPipeline(nodeState[p])
                     THEN JobPending ELSE pipelineCache[p]]
    /\ queueCount' = [p \in Providers |->
                     IF Alive(p) /\ QueuesPipeline(nodeState[p])
                     THEN queueCount[p] + 1 ELSE queueCount[p]]
    /\ Advance
    /\ UNCHANGED <<mainWorld, subGraphCache, queue, renderGraph, tick, summaries,
                   spawnTick, deployTick, deployCount, liveUpdated, despawnTick>>
    /\ UNCHANGED <<fnVars, obVars, rnVars, rcVars, bdVars>>

\* The providers of sub_graph that update_graph_from_providers_in_main_world
\* finds in its Changed<T> query and whose descriptor is of type T.
UpdatedProviders(sub_graph) ==
    {p \in DOMAIN sub_graph.providers :
        /\ p \in Providers
        /\ Alive(p)
        /\ changed[p]
        /\ sub_graph.providers[p].ty = "ComputeNode"}

RECURSIVE AddNodesToGraph(_, _)
AddNodesToGraph(nodes, ps) ==
    IF ps = {} THEN nodes
    ELSE LET p == CHOOSE q \in ps : TRUE
         IN AddNodesToGraph(AddOrReplaceGraphNode(nodes, NodeName(p), NodeOf(nodeState[p])),
                            ps \ {p})

\* ProviderPlugin::update_graph_from_providers_in_main_world
UpdateGraph ==
    /\ Current = "UpdateGraph"
    /\ mainWorld' = [g \in DOMAIN mainWorld |->
            LET sub_graph == mainWorld[g]
                upd == UpdatedProviders(sub_graph)
            IN [sub_graph EXCEPT
                  !.providers = [p \in DOMAIN @ |->
                        IF p \in upd THEN [@[p] EXCEPT !.state = State(nodeState[p])]
                        ELSE @[p]],
                  !.graph = IF @.tag = "Queued"
                            THEN [@ EXCEPT !.graph.nodes = AddNodesToGraph(@, upd)]
                            ELSE @]]
    /\ queue' =
            LET late == {g \in DOMAIN mainWorld :
                            /\ mainWorld[g].graph.tag # "Queued"
                            /\ UpdatedProviders(mainWorld[g]) # {}}
            IN [g \in late \cup DOMAIN queue |->
                    LET old == IF g \in DOMAIN queue THEN queue[g] ELSE EmptyMap
                        upd == IF g \in late THEN UpdatedProviders(mainWorld[g]) ELSE {}
                    IN [n \in {NodeName(p) : p \in upd} |->
                            CHOOSE p \in upd : NodeName(p) = n] @@ old]
    /\ changed' = [p \in Providers |-> FALSE]
    /\ Advance
    /\ UNCHANGED <<nodeState, pipelineCache, queueCount, subGraphCache, renderGraph, tick,
                   summaries, spawnTick, deployTick, deployCount, liveUpdated, despawnTick>>
    /\ UNCHANGED <<fnVars, obVars, rnVars, rcVars, bdVars>>

RECURSIVE AddQueuedNodes(_, _, _)
AddQueuedNodes(nodes, entities, names) ==
    IF names = {} THEN nodes
    ELSE LET n == CHOOSE m \in names : TRUE
             p == entities[n]
         IN AddQueuedNodes(IF p \in Providers /\ Alive(p)
                           THEN AddOrReplaceGraphNode(nodes, n, NodeOf(nodeState[p]))
                           ELSE nodes,
                           entities, names \ {n})

\* ProviderPlugin::deploy_nodes_from_providers_in_render_world
DeployNodes ==
    /\ Current = "DeployNodes"
    /\ renderGraph' = [renderGraph EXCEPT !.sub_graphs =
            [g \in DOMAIN @ |->
                IF g \in DOMAIN queue
                THEN [@[g] EXCEPT !.nodes = AddQueuedNodes(@, queue[g], DOMAIN queue[g])]
                ELSE @[g]]]
    /\ liveUpdated' = [g \in SubGraphs |->
            liveUpdated[g] \/ (g \in DOMAIN queue /\ g \in DOMAIN renderGraph.sub_graphs)]
    /\ queue' = EmptyMap
    /\ Advance
    /\ UNCHANGED <<nodeState, changed, pipelineCache, queueCount, mainWorld, subGraphCache,
                   tick, summaries, spawnTick, deployTick, deployCount, despawnTick>>
    /\ UNCHANGED <<fnVars, obVars, rnVars, rcVars, bdVars>>

\* SubGraph::extract_to_render_world
Extract ==
    /\ Current = "Extract"
    /\ LET moved == {g \in DOMAIN mainWorld : mainWorld[g].graph.tag = "Queued"}
       IN /\ mainWorld' = [g \in DOMAIN mainWorld |->
                IF g \in moved THEN [mainWorld[g] EXCEPT !.graph = MovedToRenderWorld]
                ELSE mainWorld[g]]
          /\ subGraphCache' = [g \in moved |-> mainWorld[g]] @@ subGraphCache
    /\ Advance
    /\ UNCHANGED <<nodeState, changed, pipelineCache, queueCount, queue, renderGraph, tick,
                   summaries, spawnTick, deployTick, deployCount, liveUpdated, despawnTick>>
    /\ UNCHANGED <<fnVars, obVars, rnVars, rcVars, bdVars>>

\* SubGraphCache::update, the merge step; perm fixes the iteration order of the
\* providers HashMaps.
Merge(perm) ==
    /\ Current = "Merge"
    /\ LET order(g) == OrderOf(perm, subGraphCache[g].providers)
           deploying == {g \in DOMAIN subGraphCache :
                            ShouldDeploy(subGraphCache[g], order(g))}
       IN /\ subGraphCache' = [g \in DOMAIN subGraphCache |->
                IF g \in deploying THEN [subGraphCache[g] EXCEPT !.graph = Deployed]
                ELSE subGraphCache[g]]
          /\ renderGraph' =
                [sub_graphs |-> [g \in deploying |-> subGraphCache[g].graph.graph]
                                    @@ renderGraph.sub_graphs,
                 nodes |-> [g \in deploying |->
                                [sub_graph_name |-> subGraphCache[g].name,
                                 node_inputs |-> subGraphCache[g].graph.graph.input_slots]]
                                    @@ renderGraph.nodes,
                 edges |-> LET RECURSIVE Sum(_)
                               Sum(gs) == IF gs = {} THEN renderGraph.edges
                                          ELSE LET g == CHOOSE h \in gs : TRUE
                                               IN LiveEdges(subGraphCache[g].graph.edges, g)
                                                    (+) Sum(gs \ {g})
                           IN Sum(deploying)]
          /\ summaries' = [g \in SubGraphs |->
                IF /\ g \in DOMAIN subGraphCache
                   /\ subGraphCache[g].graph.tag = "Queued"
                   /\ Len(summaries[g]) < MaxTick
                THEN Append(summaries[g],
                            ProvidersStateSummary(subGraphCache[g].providers, order(g)))
                ELSE summaries[g]]
          /\ deployTick' = [g \in SubGraphs |->
                IF g \in deploying THEN tick ELSE deployTick[g]]
          /\ deployCount' = [g \in SubGraphs |->
                IF g \in deploying THEN deployCount[g] + 1 ELSE deployCount[g]]
    /\ Advance
    /\ UNCHANGED <<nodeState, changed, pipelineCache, queueCount, mainWorld, queue, tick,
                   spawnTick, liveUpdated, despawnTick>>
    /\ UNCHANGED <<fnVars, obVars, rnVars, rcVars, bdVars>>

Next ==
    \/ \E g \in SubGraphs, ps \in SUBSET Providers : SpawnSubGraph(g, ps)
    \/ \E p \in Providers, result \in {JobOk} \cup {JobErr(m) : m \in ErrMessages} :
            CompilePipeline(p, result)
    \/ \E p \in Providers : TouchProvider(p)
    \/ \E e \in 0..Len(Chain) : BeginTick(e)
    \/ UpdateProviders
    \/ UpdateGraph
    \/ DeployNodes
    \/ Extract
    \/ \E perm \in Orders(Providers) : Merge(perm)

Spec == Init /\ [][Next]_vars

\* The host scheduler runs frame after frame, and every system of a frame runs.
Frame ==
    \/ \E e \in 0..Len(Chain) : BeginTick(e)
    \/ UpdateProviders
    \/ UpdateGraph
    \/ DeployNodes
    \/ Extract
    \/ \E perm \in Orders(Providers) : Merge(perm)

FairSpec == Init /\ [][Next]_vars /\ WF_vars(Frame)

\* The frame schedule of an application that also destroys provider entities.
DsSpec == Init /\ [][Next \/ \E p \in Providers : DespawnProvider(p)]_vars

(***************************************************************************)
(* Function-level specification: providers_state_summary and               *)
(* ComputeNode::state applied to inputs drawn from bounded sets.           *)
(***************************************************************************)
Descriptors(S) ==
    [S -> {[name |-> "node", ty |-> "ComputeNode", state |-> st] : st \in ProviderState}]

FnInit ==
    /\ SysInit
    /\ BdIdle
    /\ \E S \in SUBSET FnEntities :
          /\ fnProviders \in Descriptors(S)
          /\ fnOrder \in Orders(S)
    /\ fnNode \in ComputeNodeState
    /\ fnSummary = NoResult
    /\ fnState = NoResult
    /\ ObIdle
    /\ RnIdle
    /\ RcIdle

FnProvidersStateSummary ==
    /\ fnSummary = NoResult
    /\ fnSummary' = ProvidersStateSummary(fnProviders, fnOrder)
    /\ UNCHANGED <<fnProviders, fnOrder, fnNode, fnState>>
    /\ UNCHANGED <<sysVars, obVars, rnVars, rcVars, bdVars>>

FnState ==
    /\ fnState = NoResult
    /\ fnState' = State(fnNode)
    /\ UNCHANGED <<fnProviders, fnOrder, fnNode, fnSummary>>
    /\ UNCHANGED <<sysVars, obVars, rnVars, rcVars, bdVars>>

FnNext == FnProvidersStateSummary \/ FnState

FnSpec == FnInit /\ [][FnNext]_vars

(***************************************************************************)
(* Output readback (node/output.rs)                                        *)
(*                                                                         *)
(* One OutputBuffer component.  Its state sits behind a mutex that the     *)
(* node's run (render graph), the map scan (PreUpdate), the completion     *)
(* callbacks (device) and the host's takers all lock, so every operation   *)
(* is a step that acquires the mutex and a step that does the work and     *)
(* releases it.  The device runs a completion callback at a time of its    *)
(* own choosing after the request was issued.                              *)
(***************************************************************************)
\* take_buffer with the lock acquired, leaving the state as it found it.
TakeBufferKeepsMapped(state) ==
    IF state.tag = "Mapped"
    THEN [result |-> TakeOk(state.buf), state |-> state]
    ELSE [result |-> MappedBufferNotFound, state |-> state]

\* take_buffer with the lock acquired (output.rs 54-63).
TakeBuffer(state) ==
    IF state.tag = "Mapped"
    THEN [result |-> TakeOk(state.buf), state |-> NotCreated]
    ELSE [result |-> MappedBufferNotFound, state |-> state]

\* As HeldBuffer, with the buffer of a WaitingForMap state offered for reuse too.
HeldBufferAlsoWaiting(state) ==
    IF state.tag \in {"Mapped", "ReadyToMap", "WaitingForMap"} THEN state.buf ELSE 0

\* The readback buffer run() considers for reuse (output.rs 105-118); 0: none.
HeldBuffer(state) == IF state.tag \in {"Mapped", "ReadyToMap"} THEN state.buf ELSE 0

\* Buffer::unmap (output.rs 112): a map of b that has not completed is aborted.
Unmap(requests, b) ==
    {IF q.buf = b THEN [q EXCEPT !.live = FALSE] ELSE q : q \in requests}

\* The completion callback with the lock acquired (output.rs 163-173): the state
\* is replaced by NotCreated, and only a WaitingForMap state is resolved.
MapCallback(state, result) ==
    IF state.tag = "WaitingForMap"
    THEN IF result = "Ok" THEN Mapped(state.buf) ELSE MappingError
    ELSE NotCreated

\* OutputBuffer::run, lock acquisition (output.rs 96-99).
RunLock ==
    /\ obLock = "free"
    /\ obRuns < MaxRuns
    /\ obLock' = "run"
    /\ UNCHANGED <<obState, obSize, obContent, obDevice, obRequests, obCb, obRuns,
                   obAllocated, obIssued, obCompleted, obTakes, takePc, takeResult, takeAs>>
    /\ UNCHANGED <<sysVars, fnVars, rnVars, rcVars, bdVars>>

\* OutputBuffer::run on an input buffer of the given size (output.rs 94-134).
RunBody(size) ==
    /\ obLock = "run"
    /\ LET held == HeldBuffer(obState)
           unmapped == obState.tag = "Mapped"
           reuse == held # 0 /\ obSize[held] = size
           buffer == IF reuse THEN held ELSE obAllocated + 1
       IN  /\ obDevice' = IF unmapped THEN [obDevice EXCEPT ![held] = "unmapped"]
                          ELSE obDevice
           /\ obRequests' = IF unmapped THEN Unmap(obRequests, held) ELSE obRequests
           /\ obSize' = [obSize EXCEPT ![buffer] = size]
           /\ obAllocated' = IF reuse THEN obAllocated ELSE obAllocated + 1
           /\ obContent' = [obContent EXCEPT ![buffer] = obRuns + 1]
           /\ obState' = ReadyToMap(buffer)
    /\ obRuns' = obRuns + 1
    /\ obCompleted' = 0
    /\ obTakes' = 0
    /\ obLock' = "free"
    /\ UNCHANGED <<obCb, obIssued, takePc, takeResult, takeAs>>
    /\ UNCHANGED <<sysVars, fnVars, rnVars, rcVars, bdVars>>

\* map_output_buffers, lock acquisition (output.rs 150-153).
ScanLock ==
    /\ obLock = "free"
    /\ obLock' = "scan"
    /\ UNCHANGED <<obState, obSize, obContent, obDevice, obRequests, obCb, obRuns,
                   obAllocated, obIssued, obCompleted, obTakes, takePc, takeResult, takeAs>>
    /\ UNCHANGED <<sysVars, fnVars, rnVars, rcVars, bdVars>>

\* map_output_buffers on this component (output.rs 154-176).
ScanBody ==
    /\ obLock = "scan"
    /\ IF obState.tag = "ReadyToMap"
       THEN LET b == obState.buf
                accepted == obDevice[b] = "unmapped"
            IN  /\ obState' = WaitingForMap(b)
                /\ obRequests' = obRequests \cup
                                     {MapRequest(obIssued + 1, b, obRuns, accepted)}
                /\ obDevice' = IF accepted THEN [obDevice EXCEPT ![b] = "pending"]
                               ELSE obDevice
                /\ obIssued' = obIssued + 1
       ELSE UNCHANGED <<obState, obRequests, obDevice, obIssued>>
    /\ obLock' = "free"
    /\ UNCHANGED <<obSize, obContent, obCb, obRuns, obAllocated, obCompleted, obTakes,
                   takePc, takeResult, takeAs>>
    /\ UNCHANGED <<sysVars, fnVars, rnVars, rcVars, bdVars>>

\* map_output_buffers on this component when the device runs the completion
\* callback inside map_buffer itself (output.rs 159-175), as it may for a
\* request it fails at once.  state_lock (output.rs 150-153) lives to the end
\* of the loop body, so the callback's state.lock() (output.rs 163) is a second
\* lock by the thread that holds the mutex, and Mutex::lock does not return
\* then: the thread deadlocks with the mutex held, or it panics and the guard,
\* dropped while unwinding, poisons the mutex.  The operations that lock with
\* expect (run, scan, callback) panic on a poisoned mutex and take no step.
ScanBodyInline(outcome) ==
    /\ obLock = "scan"
    /\ obState.tag = "ReadyToMap"
    /\ obState' = WaitingForMap(obState.buf)
    /\ obIssued' = obIssued + 1
    /\ obLock' = outcome
    /\ UNCHANGED <<obSize, obContent, obDevice, obRequests, obCb, obRuns, obAllocated,
                   obCompleted, obTakes, takePc, takeResult, takeAs>>
    /\ UNCHANGED <<sysVars, fnVars, rnVars, rcVars, bdVars>>

\* The device finishes the request q with a result and enters its callback,
\* which acquires the lock (output.rs 162-163).
CallbackLock(q, result) ==
    /\ q \in obRequests
    /\ result \in (IF q.live THEN {"Ok", "Err"} ELSE {"Err"})
    /\ obLock = "free"
    /\ obLock' = "cb"
    /\ obCb' = [id |-> q.id, buf |-> q.buf, run |-> q.run, result |-> result]
    /\ obRequests' = obRequests \ {q}
    /\ obDevice' = IF ~q.live THEN obDevice
                   ELSE [obDevice EXCEPT ![q.buf] =
                             IF result = "Ok" THEN "mapped" ELSE "unmapped"]
    /\ UNCHANGED <<obState, obSize, obContent, obRuns, obAllocated, obIssued,
                   obCompleted, obTakes, takePc, takeResult, takeAs>>
    /\ UNCHANGED <<sysVars, fnVars, rnVars, rcVars, bdVars>>

\* The completion callback (output.rs 163-173).
CallbackBody ==
    /\ obLock = "cb"
    /\ obState' = MapCallback(obState, obCb.result)
    /\ obCompleted' = IF /\ obState = WaitingForMap(obCb.buf)
                         /\ obCb.result = "Ok"
                         /\ obCb.run = obRuns
                      THEN obRuns ELSE obCompleted
    /\ obCb' = NoRequest
    /\ obLock' = "free"
    /\ UNCHANGED <<obSize, obContent, obDevice, obRequests, obRuns, obAllocated,
                   obIssued, obTakes, takePc, takeResult, takeAs>>
    /\ UNCHANGED <<sysVars, fnVars, rnVars, rcVars, bdVars>>

\* take_buffer, the try_lock (output.rs 53, 64-66): never waits.  try_lock
\* fails on a mutex that is held and on one that is poisoned alike, and the
\* else branch maps both to CannotLock.
TakeTryLock(t) ==
    /\ takePc[t] = "idle"
    /\ IF obLock = "free"
       THEN /\ obLock' = t
            /\ takePc' = [takePc EXCEPT ![t] = "locked"]
            /\ UNCHANGED takeResult
       ELSE /\ takeResult' = [takeResult EXCEPT ![t] = CannotLock]
            /\ UNCHANGED <<obLock, takePc>>
    /\ UNCHANGED <<obState, obSize, obContent, obDevice, obRequests, obCb, obRuns,
                   obAllocated, obIssued, obCompleted, obTakes, takeAs>>
    /\ UNCHANGED <<sysVars, fnVars, rnVars, rcVars, bdVars>>

\* take_buffer with the lock acquired (output.rs 54-63), then the guard drops.
TakeBody(t) ==
    /\ takePc[t] = "locked"
    /\ LET r == TakeBuffer(obState)
       IN  /\ obState' = r.state
           /\ takeResult' = [takeResult EXCEPT ![t] = r.result]
           /\ obTakes' = IF r.result.tag = "Ok" THEN obTakes + 1 ELSE obTakes
    /\ takePc' = [takePc EXCEPT ![t] = "idle"]
    /\ obLock' = "free"
    /\ UNCHANGED <<obSize, obContent, obDevice, obRequests, obCb, obRuns, obAllocated,
                   obIssued, obCompleted, takeAs>>
    /\ UNCHANGED <<sysVars, fnVars, rnVars, rcVars, bdVars>>

\* The read of take_buffer_as (output.rs 71-73) on what take_buffer returned:
\* Reader::new fails when the mapped range is shorter than the minimum size of
\* T, and the buffer taken is dropped with the error.
ReadAs(result, size, min_size) ==
    IF result.tag # "Ok" THEN result
    ELSE IF size[result.buf] < min_size THEN BufferReadWriteError
    ELSE TakeOk(result.buf)

\* take_buffer_as::<T> with the lock acquired by its take_buffer call
\* (output.rs 70-73), for a T of the given minimum size: take_buffer, the guard
\* drops, then the read.  A take_buffer_as turned away by try_lock returns the
\* CannotLock of its take_buffer call (TakeTryLock).
TakeAsBody(t, min_size) ==
    /\ takePc[t] = "locked"
    /\ LET r == TakeBuffer(obState)
       IN  /\ obState' = r.state
           /\ takeResult' = [takeResult EXCEPT ![t] = r.result]
           /\ takeAs' = ReadAs(r.result, obSize, min_size)
           /\ obTakes' = IF r.result.tag = "Ok" THEN obTakes + 1 ELSE obTakes
    /\ takePc' = [takePc EXCEPT ![t] = "idle"]
    /\ obLock' = "free"
    /\ UNCHANGED <<obSize, obContent, obDevice, obRequests, obCb, obRuns, obAllocated,
                   obIssued, obCompleted>>
    /\ UNCHANGED <<sysVars, fnVars, rnVars, rcVars, bdVars>>

OutNext ==
    \/ RunLock
    \/ \E size \in Sizes : RunBody(size)
    \/ ScanLock
    \/ ScanBody
    \/ \E outcome \in {"deadlock", "poisoned"} : ScanBodyInline(outcome)
    \/ \E q \in obRequests, result \in {"Ok", "Err"} : CallbackLock(q, result)
    \/ CallbackBody
    \/ \E t \in Takers : TakeTryLock(t)
    \/ \E t \in Takers : TakeBody(t)
    \/ \E t \in Takers, min_size \in Sizes : TakeAsBody(t, min_size)

OutSpec == Init /\ [][OutNext]_vars

\* The map scan runs every frame (PreUpdate, output.rs 20), the device completes
\* every request it was handed, and every operation that holds the lock
\* finishes; the lock is granted to the scan and to a callback that keep asking.
OutFairSpec ==
    /\ OutSpec
    /\ SF_vars(ScanLock)
    /\ WF_vars(ScanBody)
    /\ SF_vars(\E q \in obRequests, result \in {"Ok", "Err"} : CallbackLock(q, result))
    /\ WF_vars(CallbackBody)
    /\ WF_vars(\E size \in Sizes : RunBody(size))
    /\ WF_vars(\E t \in Takers : TakeBody(t))

(***************************************************************************)
(* Runner node and trigger gate (graph.rs 194-260)                         *)
(*                                                                         *)
(* One runner node, run by up to two render threads that share its Manual  *)
(* flag (the node and the trigger are Clone and share the Arc).  A run is  *)
(* the atomic swap on the flag, then the rest of the body.  What the live  *)
(* graph holds under the runner's sub-graph name is an input: the host, or *)
(* the deployment of another sub-graph of the same name, may have removed  *)
(* or replaced it (RenderGraph is a public resource).                      *)
(***************************************************************************)
\* The gate with a plain load in place of the swap.
TriggerGateNoClear(trigger, flag) ==
    IF trigger = "Manual" THEN [pass |-> flag, flag |-> flag]
    ELSE [pass |-> TRUE, flag |-> flag]

\* The gate treating a Manual trigger as Always.
TriggerGateIgnoresFlag(trigger, flag) == [pass |-> TRUE, flag |-> flag]

\* The trigger gate (graph.rs 212-220): manual.swap(false, Relaxed).
TriggerGate(trigger, flag) ==
    IF trigger = "Manual" THEN [pass |-> flag, flag |-> FALSE]
    ELSE [pass |-> TRUE, flag |-> flag]

\* sub_graph_inputs (graph.rs 224-234): the runner's inputs keyed by slot name.
SubGraphInputs(node_inputs) ==
    [name \in {node_inputs[i] : i \in DOMAIN node_inputs} |-> InputValue(name)]

\* The loop over the sub-graph's input slots (graph.rs 240-253); slot_index is
\* the zero-based index enumerate() yields.
RECURSIVE ForwardInputs(_, _, _, _)
ForwardInputs(input_slots, sub_graph_inputs, index, input_values) ==
    IF index > Len(input_slots) THEN Executed(input_values)
    ELSE LET name == input_slots[index]
         IN  IF name \in DOMAIN sub_graph_inputs
             THEN ForwardInputs(input_slots,
                                [n \in DOMAIN sub_graph_inputs \ {name} |->
                                     sub_graph_inputs[n]],
                                index + 1,
                                Append(input_values, sub_graph_inputs[name]))
             ELSE MissingInput(index - 1, name, GraphName)

\* The body forwarding the runner's inputs in the runner's declaration order.
RunnerRunByPosition(node_inputs, sub_graph) ==
    IF ~sub_graph.registered THEN NotFound
    ELSE IF Len(node_inputs) < Len(sub_graph.input_slots)
         THEN MissingInput(Len(node_inputs), sub_graph.input_slots[Len(node_inputs) + 1],
                           GraphName)
         ELSE Executed([i \in DOMAIN sub_graph.input_slots |-> InputValue(node_inputs[i])])

\* The body reporting an unregistered sub-graph as a run error.
RunnerRunMissingSubGraph(node_inputs, sub_graph) ==
    IF sub_graph.registered
    THEN ForwardInputs(sub_graph.input_slots, SubGraphInputs(node_inputs), 1, <<>>)
    ELSE RunResult("MissingSubGraph", TRUE, FALSE, FALSE, <<>>, 0, "", GraphName)

\* SubGraphRunnerNode::run past the gate (graph.rs 222-258).
RunnerRun(node_inputs, sub_graph) ==
    IF sub_graph.registered
    THEN ForwardInputs(sub_graph.input_slots, SubGraphInputs(node_inputs), 1, <<>>)
    ELSE NotFound

\* The runner as SubGraphCache::update builds it (graph.rs 162-166) with either
\* trigger; a Manual flag created set (Arc::new(true.into())) counts as one set.
RnInit ==
    /\ SysInit
    /\ BdIdle
    /\ FnIdle
    /\ ObIdle
    /\ RcIdle
    /\ rnTrigger \in {"Always", "Manual"}
    /\ rnFlag \in (IF rnTrigger = "Manual" THEN BOOLEAN ELSE {FALSE})
    /\ rnSets = (IF rnFlag THEN 1 ELSE 0)
    /\ rnNodeInputs \in SlotVectors
    /\ rnSubGraph \in {[registered |-> FALSE, input_slots |-> <<>>]} \cup
                      {[registered |-> TRUE, input_slots |-> v] : v \in SlotVectors}
    /\ rnPc = [r \in Runners |-> "idle"]
    /\ rnResult = [r \in Runners |-> NoRun]
    /\ rnPass = 0
    /\ rnSkip = 0
    /\ rnExec = 0
    /\ rnFail = 0
    /\ rnSinceSet = 0

\* The host sets the manual flag (store(true) on the shared AtomicBool).
SetFlag ==
    /\ rnTrigger = "Manual"
    /\ rnSets < MaxSets
    /\ rnFlag' = TRUE
    /\ rnSets' = rnSets + 1
    /\ rnSinceSet' = 0
    /\ UNCHANGED <<rnTrigger, rnNodeInputs, rnSubGraph, rnPc, rnResult, rnPass, rnSkip,
                   rnExec, rnFail>>
    /\ UNCHANGED <<sysVars, fnVars, obVars, rcVars, bdVars>>

\* SubGraphRunnerNode::run up to the gate (graph.rs 212-220).
RunnerGate(r) ==
    /\ rnPc[r] = "idle"
    /\ rnPass + rnSkip < MaxRunnerRuns
    /\ LET gate == TriggerGate(rnTrigger, rnFlag)
       IN  /\ rnFlag' = gate.flag
           /\ IF gate.pass
              THEN /\ rnPc' = [rnPc EXCEPT ![r] = "gated"]
                   /\ rnPass' = rnPass + 1
                   /\ UNCHANGED <<rnResult, rnSkip>>
              ELSE /\ rnResult' = [rnResult EXCEPT ![r] = Skipped]
                   /\ rnSkip' = rnSkip + 1
                   /\ UNCHANGED <<rnPc, rnPass>>
    /\ rnSinceSet' = rnSinceSet + 1
    /\ UNCHANGED <<rnTrigger, rnNodeInputs, rnSubGraph, rnSets, rnExec, rnFail>>
    /\ UNCHANGED <<sysVars, fnVars, obVars, rcVars, bdVars>>

\* SubGraphRunnerNode::run past the gate (graph.rs 222-258).
RunnerBody(r) ==
    /\ rnPc[r] = "gated"
    /\ LET result == RunnerRun(rnNodeInputs, rnSubGraph)
       IN  /\ rnResult' = [rnResult EXCEPT ![r] = result]
           /\ rnExec' = IF result.executed THEN rnExec + 1 ELSE rnExec
           /\ rnFail' = IF result.executed THEN rnFail ELSE rnFail + 1
    /\ rnPc' = [rnPc EXCEPT ![r] = "idle"]
    /\ UNCHANGED <<rnTrigger, rnFlag, rnNodeInputs, rnSubGraph, rnSets, rnPass, rnSkip,
                   rnSinceSet>>
    /\ UNCHANGED <<sysVars, fnVars, obVars, rcVars, bdVars>>

RnNext ==
    \/ SetFlag
    \/ \E r \in Runners : RunnerGate(r)
    \/ \E r \in Runners : RunnerBody(r)

RnSpec == RnInit /\ [][RnNext]_vars

(***************************************************************************)
(* Resource cache of a compute node (node/compute.rs 113-224)              *)
(*                                                                         *)
(* One node with its bind_resource_info and its bind_resource_cache.  A    *)
(* slot index is the position in bind_resource_info (from 1 here, from 0   *)
(* in the code).  ctx is what the FromGraphContext functions of the node   *)
(* compute from the graph context of the call.                             *)
(***************************************************************************)
\* into_static (resource.rs 50-74).
IntoStatic(info, ctx) ==
    LET fields == IF info.strategy = "Static" THEN info.fields ELSE ctx
    IN  StaticDescriptor(info.kind, fields.size, fields.usage)

Result(cache, created, call) == [cache |-> cache, created |-> created, call |-> call]

\* get_output_resource comparing the buffer size only.
GetOutputResourceSizeOnly(info, cache, created, index, ctx) ==
    IF index \notin DOMAIN info \/ info[index].direction # "Output"
    THEN Result(cache, created, Request(index, NoDescriptor, "InvalidSlot", 0, FALSE))
    ELSE LET static_descriptor == IntoStatic(info[index], ctx)
         IN  IF index \in DOMAIN cache /\ cache[index].desc.size = static_descriptor.size
             THEN Result(cache, created,
                         Request(index, static_descriptor, "Ok", cache[index].inst, FALSE))
             ELSE Result((index :> CacheEntry(static_descriptor, created + 1)) @@ cache,
                         created + 1,
                         Request(index, static_descriptor, "Ok", created + 1, TRUE))

\* get_output_resource creating the resource before it looks into the cache.
GetOutputResourceCreatesFirst(info, cache, created, index, ctx) ==
    IF index \notin DOMAIN info \/ info[index].direction # "Output"
    THEN Result(cache, created, Request(index, NoDescriptor, "InvalidSlot", 0, FALSE))
    ELSE LET static_descriptor == IntoStatic(info[index], ctx)
         IN  IF index \in DOMAIN cache /\ cache[index].desc = static_descriptor
             THEN Result(cache, created + 1,
                         Request(index, static_descriptor, "Ok", cache[index].inst, FALSE))
             ELSE Result((index :> CacheEntry(static_descriptor, created + 1)) @@ cache,
                         created + 1,
                         Request(index, static_descriptor, "Ok", created + 1, TRUE))

\* get_output_resource (compute.rs 190-223, resource.rs 247-280): the new cache,
\* the new number of created resources, and the call with what it returned.
GetOutputResource(info, cache, created, index, ctx) ==
    IF index \notin DOMAIN info \/ info[index].direction # "Output"
    THEN Result(cache, created, Request(index, NoDescriptor, "InvalidSlot", 0, FALSE))
    ELSE LET static_descriptor == IntoStatic(info[index], ctx)
         IN  IF index \in DOMAIN cache /\ cache[index].desc = static_descriptor
             THEN Result(cache, created,
                         Request(index, static_descriptor, "Ok", cache[index].inst, FALSE))
             ELSE Result((index :> CacheEntry(static_descriptor, created + 1)) @@ cache,
                         created + 1,
                         Request(index, static_descriptor, "Ok", created + 1, TRUE))

\* The pass-through reading some other input slot.
PassThroughOtherSlot(info, inputs) ==
    IF \E n \in DOMAIN inputs : n # info.name
    THEN inputs[CHOOSE n \in DOMAIN inputs : n # info.name]
    ELSE inputs[info.name]

\* The output of an InputOutput slot (compute.rs 172-175): graph.get_input(label).
PassThrough(info, inputs) == inputs[info.name]

\* State threaded through the two loops of an execution: the cache, the number
\* of created resources, the get_output_resource calls made, the values set
\* (by name) and the error that ended the loop ("" if none).
Loop(cache, created, calls, values, err) ==
    [cache |-> cache, created |-> created, calls |-> calls, values |-> values, err |-> err]

\* set_bind_group (compute.rs 114-155).
RECURSIVE SetBindGroup(_, _, _, _, _)
SetBindGroup(info, inputs, ctx, index, acc) ==
    IF index > Len(info) \/ acc.err # "" THEN acc
    ELSE LET i == info[index]
         IN  IF i.direction \in {"Input", "InputOutput"}
             THEN IF i.name \in DOMAIN inputs
                  THEN SetBindGroup(info, inputs, ctx, index + 1,
                           [acc EXCEPT !.values = (i.name :> inputs[i.name]) @@ @])
                  ELSE [acc EXCEPT !.err = "InputSlotError"]
             ELSE LET g == GetOutputResource(info, acc.cache, acc.created, index, ctx)
                  IN  SetBindGroup(info, inputs, ctx, index + 1,
                           Loop(g.cache, g.created, Append(acc.calls, g.call),
                                (i.name :> Own(g.call.inst)) @@ acc.values, ""))

\* set_output_slots (compute.rs 157-181).
RECURSIVE SetOutputSlots(_, _, _, _, _)
SetOutputSlots(info, inputs, ctx, index, acc) ==
    IF index > Len(info) \/ acc.err # "" THEN acc
    ELSE LET i == info[index]
         IN  CASE i.direction = "Output" ->
                     LET g == GetOutputResource(info, acc.cache, acc.created, index, ctx)
                     IN  SetOutputSlots(info, inputs, ctx, index + 1,
                              Loop(g.cache, g.created, Append(acc.calls, g.call),
                                   (i.name :> Own(g.call.inst)) @@ acc.values, ""))
               [] i.direction = "InputOutput" ->
                     IF i.name \in DOMAIN inputs
                     THEN SetOutputSlots(info, inputs, ctx, index + 1,
                              [acc EXCEPT !.values = (i.name :> PassThrough(i, inputs)) @@ @])
                     ELSE [acc EXCEPT !.err = "InputSlotError"]
               [] OTHER -> SetOutputSlots(info, inputs, ctx, index + 1, acc)

\* Bookkeeping of the calls made: what each slot returned last, which instances
\* were superseded, and what every instance was created from.
RECURSIVE Replay(_, _, _, _, _)
Replay(returned, retired, made, calls, k) ==
    IF k > Len(calls)
    THEN [returned |-> returned, retired |-> retired, made |-> made]
    ELSE LET c == calls[k]
         IN  IF c.tag # "Ok" THEN Replay(returned, retired, made, calls, k + 1)
             ELSE Replay((c.index :> CacheEntry(c.desc, c.inst)) @@ returned,
                         IF c.index \in DOMAIN returned /\ returned[c.index].inst # c.inst
                         THEN retired \cup {returned[c.index].inst} ELSE retired,
                         IF c.created
                         THEN (c.inst :> [desc |-> c.desc, index |-> c.index]) @@ made
                         ELSE made,
                         calls, k + 1)

\* BindResourceCreationStrategy of an Output slot (resource.rs 11-15): a static
\* descriptor, or one computed from the graph context.
Strategies ==
    {[strategy |-> "Static", fields |-> [size |-> 1024, usage |-> "STORAGE"]],
     [strategy |-> "FromGraphContext", fields |-> NoFields]}

\* The bind_resource_info of the node: a buffer output, a pass-through slot, an
\* input and a texture output, the outputs with either creation strategy; or
\* the same without the texture output.
NodeLayouts ==
    {<<BindInfo("out", "Output", "Buffer", s.strategy, s.fields),
       BindInfo("io", "InputOutput", "Buffer", "None", NoFields),
       BindInfo("in", "Input", "Buffer", "None", NoFields),
       BindInfo("tex", "Output", "Texture", t.strategy, t.fields)>> :
         s \in Strategies, t \in Strategies}
    \cup
    {<<BindInfo("out", "Output", "Buffer", s.strategy, s.fields),
       BindInfo("io", "InputOutput", "Buffer", "None", NoFields),
       BindInfo("in", "Input", "Buffer", "None", NoFields)>> : s \in Strategies}

\* The input slots of the node (resource.rs 127-158) filled by the render graph.
NodeInputs(info) ==
    {inputs \in [{info[i].name : i \in {j \in DOMAIN info :
                                   info[j].direction \in {"Input", "InputOutput"}}}
                    -> UpstreamValues] :
        \A i \in DOMAIN info : info[i].direction = "Input" => inputs[info[i].name] = Upstream(1)}

\* A node fresh from ComputeNodeImpl construction (compute.rs 341-352): the cache
\* is empty.
RcInit ==
    /\ SysInit
    /\ BdIdle
    /\ FnIdle
    /\ ObIdle
    /\ RnIdle
    /\ rcInfo \in NodeLayouts
    /\ rcCache = EmptyMap
    /\ rcCreated = 0
    /\ rcLast = NoCall
    /\ rcReturned = EmptyMap
    /\ rcRetired = {}
    /\ rcMadeFrom = EmptyMap
    /\ rcBound = EmptyMap
    /\ rcOutputs = EmptyMap
    /\ rcInputs = EmptyMap
    /\ rcRun = NotRunning

\* One get_output_resource call for a slot index (compute.rs 190-223).
RequestOutputResource(index, ctx) ==
    /\ LET g == GetOutputResource(rcInfo, rcCache, rcCreated, index, ctx)
           h == Replay(rcReturned, rcRetired, rcMadeFrom, <<g.call>>, 1)
       IN  /\ g.created <= MaxCreated
           /\ rcCache' = g.cache
           /\ rcCreated' = g.created
           /\ rcLast' = g.call
           /\ rcReturned' = h.returned
           /\ rcRetired' = h.retired
           /\ rcMadeFrom' = h.made
    /\ UNCHANGED <<rcInfo, rcBound, rcOutputs, rcInputs, rcRun>>
    /\ UNCHANGED <<sysVars, fnVars, obVars, rnVars, bdVars>>

\* ComputeNodeImpl::run up to the return of set_bind_group (compute.rs 88-90).
\* Each get_output_resource call takes and releases the cache lock (compute.rs
\* 207-210); between the calls of one loop no other holder is let in here.
RunSetBindGroup(ctx, inputs) ==
    /\ rcRun = NotRunning
    /\ LET start == Loop(rcCache, rcCreated, <<>>, EmptyMap, "")
           bind == SetBindGroup(rcInfo, inputs, ctx, 1, start)
           h == Replay(rcReturned, rcRetired, rcMadeFrom, bind.calls, 1)
       IN  /\ bind.created <= MaxCreated
           /\ rcCache' = bind.cache
           /\ rcCreated' = bind.created
           /\ rcReturned' = h.returned
           /\ rcRetired' = h.retired
           /\ rcMadeFrom' = h.made
           /\ rcRun' = Running(ctx, inputs, bind.values, bind.err)
    /\ rcLast' = NoCall
    /\ UNCHANGED <<rcInfo, rcBound, rcOutputs, rcInputs>>
    /\ UNCHANGED <<sysVars, fnVars, obVars, rnVars, bdVars>>

\* The rest of ComputeNodeImpl::run (compute.rs 91-109): set_output_slots under
\* the same graph context, unless set_bind_group failed.
RunSetOutputSlots ==
    /\ rcRun # NotRunning
    /\ LET start == Loop(rcCache, rcCreated, <<>>, EmptyMap, rcRun.err)
           slots == SetOutputSlots(rcInfo, rcRun.inputs, rcRun.ctx, 1, start)
           h == Replay(rcReturned, rcRetired, rcMadeFrom, slots.calls, 1)
       IN  /\ slots.created <= MaxCreated
           /\ rcCache' = slots.cache
           /\ rcCreated' = slots.created
           /\ rcBound' = rcRun.values
           /\ rcOutputs' = slots.values
           /\ rcReturned' = h.returned
           /\ rcRetired' = h.retired
           /\ rcMadeFrom' = h.made
    /\ rcInputs' = rcRun.inputs
    /\ rcRun' = NotRunning
    /\ rcLast' = NoCall
    /\ UNCHANGED rcInfo
    /\ UNCHANGED <<sysVars, fnVars, obVars, rnVars, bdVars>>

RcNext ==
    \/ \E index \in 1..(Len(rcInfo) + 1), ctx \in DescriptorFields :
           RequestOutputResource(index, ctx)
    \/ \E ctx \in DescriptorFields, inputs \in NodeInputs(rcInfo) :
           RunSetBindGroup(ctx, inputs)
    \/ RunSetOutputSlots

RcSpec == RcInit /\ [][RcNext]_vars

(***************************************************************************)
(* Builders, placeholder and real node (builder.rs, node.rs,               *)
(* node/compute.rs)                                                        *)
(*                                                                         *)
(* The author creates one builder, sets fields, adds bind resources or     *)
(* nodes and edges, and calls build.  A compute node that was built is a   *)
(* provider: its state advances, add_node_to_graph installs the            *)
(* placeholder or the real node for it, and the graph may run what is      *)
(* installed.                                                              *)
(***************************************************************************)
ComputeNodeBuilderFields == {"label", "shader", "entry_point", "dispatch_workgroups_strategy"}
SubGraphBuilderFields == {"name", "trigger"}

\* SetBufferDescriptorBuilder::build (builder.rs 293-303) handed through
\* SetBindResourceDescriptorBuilder::buffer (builder.rs 208-222) and
\* AddBindResourceInfoBuilder::output (builder.rs 191-199).  label and usage are
\* the two Options; size is given.
BufferDescriptorBuild(label, usage) ==
    IF label = None THEN DirectionErr(ValueNotDefined("label"))
    ELSE IF usage = None THEN DirectionErr(ValueNotDefined("usage"))
    ELSE DirectionOk("Output", "Buffer", "Static", [size |-> 1024, usage |-> usage])

\* What the methods of AddBindResourceInfoBuilder can leave in its direction.
Directions ==
    {NoDirection}
        \cup {DirectionOk(d, t, "None", NoFields) :
                  d \in {"Input", "InputOutput"}, t \in SlotTypes}
        \cup {BufferDescriptorBuild(label, usage) :
                  label \in {None, "output_buffer"}, usage \in {None, "STORAGE"}}
        \cup {DirectionOk("Output", "Buffer", "FromGraphContext", NoFields)}

\* AddBindResourceInfoBuilder::add: the result handed to the parent's build_fn.
Add(name, direction) ==
    IF name = None THEN BuildErr(ValueNotDefined("name"))
    ELSE IF direction.tag = "None" THEN BuildErr(ValueNotDefined("direction"))
    ELSE IF direction.tag = "Err" THEN BuildErr(direction.error)
    ELSE BuildOk(BindInfo(name, direction.direction, direction.kind,
                          direction.strategy, direction.fields))

\* collect() of BuildResult items into a BuildResult<Vec>: the first error, or
\* all the values.
RECURSIVE Collect(_, _, _)
Collect(results, i, values) ==
    IF i > Len(results) THEN BuildOk(values)
    ELSE IF results[i].tag = "Err" THEN BuildErr(results[i].error)
    ELSE Collect(results, i + 1, Append(values, results[i].value[1]))

\* As ComputeNodeBuilderBuild, with the bind resources looked at first, where
\* they are collected.
ComputeNodeBuilderBuildCollectFirst(fields, bind_resources) ==
    LET bind_resource == Collect(bind_resources, 1, <<>>)
    IN  IF bind_resource.tag = "Err" THEN BuildErr(bind_resource.error)
        ELSE IF "shader" \notin fields THEN BuildErr(ValueNotDefined("shader"))
        ELSE IF "entry_point" \notin fields THEN BuildErr(ValueNotDefined("entry_point"))
        ELSE IF "dispatch_workgroups_strategy" \notin fields
             THEN BuildErr(ValueNotDefined("dispatch_workgroups_strategy"))
        ELSE BuildOk([labelled |-> "label" \in fields,
                      binding_resource_info |-> bind_resource.value[1]])

\* ComputeNodeBuilder::build: the fields of the struct literal are evaluated in
\* the order they are written.
ComputeNodeBuilderBuild(fields, bind_resources) ==
    LET bind_resource == Collect(bind_resources, 1, <<>>)
    IN  IF "shader" \notin fields THEN BuildErr(ValueNotDefined("shader"))
        ELSE IF "entry_point" \notin fields THEN BuildErr(ValueNotDefined("entry_point"))
        ELSE IF bind_resource.tag = "Err" THEN BuildErr(bind_resource.error)
        ELSE IF "dispatch_workgroups_strategy" \notin fields
             THEN BuildErr(ValueNotDefined("dispatch_workgroups_strategy"))
        ELSE BuildOk([labelled |-> "label" \in fields,
                      binding_resource_info |-> bind_resource.value[1]])

\* The loop over node_edges in SubGraphBuilder::build (builder.rs 442-444):
\* RenderGraph::try_add_node_edge fails on a node that is not in the graph and
\* on an edge that is already there.
RECURSIVE TryAddNodeEdges(_, _, _, _)
TryAddNodeEdges(nodes, node_edges, i, added) ==
    IF i > Len(node_edges) THEN BuildOk(added)
    ELSE IF node_edges[i][1] \notin nodes \/ node_edges[i][2] \notin nodes
         THEN BuildErr(RenderGraphError("InvalidNode"))
    ELSE IF node_edges[i] \in added THEN BuildErr(RenderGraphError("EdgeAlreadyExists"))
    ELSE TryAddNodeEdges(nodes, node_edges, i + 1, added \cup {node_edges[i]})

\* SubGraphBuilder::build
SubGraphBuilderBuild(fields, nodes, node_edges) ==
    LET edges == TryAddNodeEdges(nodes, node_edges, 1, {})
    IN  IF edges.tag = "Err" THEN BuildErr(edges.error)
        ELSE IF "name" \notin fields THEN BuildErr(ValueNotDefined("name"))
        ELSE BuildOk([name |-> "name", nodes |-> nodes, edges |-> edges.value[1],
                      trigger |-> IF "trigger" \in fields THEN "Manual" ELSE "Always"])

\* BindResourceCreationDescriptor::to_slot_type (resource.rs 76-82)
ToSlotType(kind) ==
    CASE kind = "Buffer" -> "Buffer"
      [] kind = "Sampler" -> "Sampler"
      [] kind = "Texture" -> "TextureView"

\* As PushSlots, with an InputOutput resource declared as an input only.
PushSlotsInputOnly(slf, bind_resource_info) ==
    CASE bind_resource_info.direction = "Input" ->
            [slf EXCEPT !.input = Append(@,
                SlotInfo(bind_resource_info.name, bind_resource_info.kind))]
      [] bind_resource_info.direction = "Output" ->
            [slf EXCEPT !.output = Append(@,
                SlotInfo(bind_resource_info.name, ToSlotType(bind_resource_info.kind)))]
      [] bind_resource_info.direction = "InputOutput" ->
            [slf EXCEPT !.input = Append(@,
                SlotInfo(bind_resource_info.name, bind_resource_info.kind))]

\* The body of the loop of DummyNode::from_bind_resource_info (node.rs 21-36).
PushSlots(slf, bind_resource_info) ==
    CASE bind_resource_info.direction = "Input" ->
            [slf EXCEPT !.input = Append(@,
                SlotInfo(bind_resource_info.name, bind_resource_info.kind))]
      [] bind_resource_info.direction = "Output" ->
            [slf EXCEPT !.output = Append(@,
                SlotInfo(bind_resource_info.name, ToSlotType(bind_resource_info.kind)))]
      [] bind_resource_info.direction = "InputOutput" ->
            LET slot_info == SlotInfo(bind_resource_info.name, bind_resource_info.kind)
            IN  [slf EXCEPT !.output = Append(@, slot_info),
                            !.input = Append(@, slot_info)]

\* DummyNode::from_bind_resource_info (node.rs 19-38), from element i on.
RECURSIVE FromBindResourceInfo(_, _, _)
FromBindResourceInfo(info, i, slf) ==
    IF i > Len(info) THEN slf
    ELSE FromBindResourceInfo(info, i + 1, PushSlots(slf, info[i]))

\* The body of the loop over binding_resource_info in the PipelineCached arm of
\* ComputeNode::update_state (compute.rs 314-343).
MatchDirection(node, bind_resource_info) ==
    CASE bind_resource_info.direction = "Input" ->
            [node EXCEPT !.input = Append(@,
                SlotInfo(bind_resource_info.name, bind_resource_info.kind))]
      [] bind_resource_info.direction = "Output" ->
            [node EXCEPT !.output = Append(@,
                SlotInfo(bind_resource_info.name, ToSlotType(bind_resource_info.kind)))]
      [] bind_resource_info.direction = "InputOutput" ->
            LET slot_info == SlotInfo(bind_resource_info.name, bind_resource_info.kind)
            IN  [node EXCEPT !.input = Append(@, slot_info),
                             !.output = Append(@, slot_info)]

\* The ComputeNodeImpl constructed in update_state (compute.rs 310-353): its
\* input_slots and output_slots, from element i on.
RECURSIVE NewComputeNodeImpl(_, _, _)
NewComputeNodeImpl(binding_resource_info, i, node) ==
    IF i > Len(binding_resource_info) THEN node
    ELSE NewComputeNodeImpl(binding_resource_info, i + 1,
                            MatchDirection(node, binding_resource_info[i]))

\* ComputeNode::add_node_to_graph (compute.rs 241-258): the node installed for a
\* provider in the given state.
ProviderNode(state, binding_resource_info) ==
    IF state.tag = "ReadyToRun"
    THEN NewComputeNodeImpl(binding_resource_info, 1,
                            GraphNode("ComputeNodeImpl", <<>>, <<>>))
    ELSE FromBindResourceInfo(binding_resource_info, 1, GraphNode("DummyNode", <<>>, <<>>))

\* As DummyNodeRun, returning a run error to the graph runner.
DummyNodeRunFails == NodeRun("Err", "error")

\* DummyNode::run (node.rs 50-61): logs with error! and returns Ok(()).
DummyNodeRun == NodeRun("Ok", "error")

\* ComputeNodeBuilder::default() or SubGraphBuilder::default()
NewBuilder(builder) ==
    /\ bdBuilder = "None"
    /\ bdBuilder' = builder
    /\ UNCHANGED <<bdFields, bdBindResources, bdDiscarded, bdNodes, bdNodeEdges, bdResult,
                   bdState, bdGraphNode, bdRun,
                   bdGraph>>
    /\ UNCHANGED <<sysVars, fnVars, obVars, rnVars, rcVars>>

\* The option setters (builder.rs 22-38, 78-85, 343-344).
SetField(field) ==
    /\ bdResult = NoBuild
    /\ \/ bdBuilder = "ComputeNodeBuilder" /\ field \in ComputeNodeBuilderFields
       \/ bdBuilder = "SubGraphBuilder" /\ field \in SubGraphBuilderFields
    /\ field \notin bdFields
    /\ bdFields' = bdFields \cup {field}
    /\ UNCHANGED <<bdBuilder, bdBindResources, bdDiscarded, bdNodes, bdNodeEdges, bdResult,
                   bdState, bdGraphNode, bdRun,
                   bdGraph>>
    /\ UNCHANGED <<sysVars, fnVars, obVars, rnVars, rcVars>>

\* bind_resource() ... add() (builder.rs 87-95, 147-159)
BindResourceAdd(name, direction) ==
    /\ bdBuilder = "ComputeNodeBuilder"
    /\ bdResult = NoBuild
    /\ Len(bdBindResources) < MaxBindResources
    /\ bdBindResources' = Append(bdBindResources, Add(name, direction))
    /\ UNCHANGED <<bdBuilder, bdFields, bdDiscarded, bdNodes, bdNodeEdges, bdResult,
                   bdState, bdGraphNode, bdRun,
                   bdGraph>>
    /\ UNCHANGED <<sysVars, fnVars, obVars, rnVars, rcVars>>

\* bind_resource() ... add_input(slot_type) or add_input_output(slot_type)
\* (builder.rs 171-174, 186-189): the parent is returned as it was.
BindResourceAddInput ==
    /\ bdBuilder = "ComputeNodeBuilder"
    /\ bdResult = NoBuild
    /\ bdDiscarded < MaxDiscarded
    /\ bdDiscarded' = bdDiscarded + 1
    /\ UNCHANGED <<bdBuilder, bdFields, bdBindResources, bdNodes, bdNodeEdges, bdResult,
                   bdState, bdGraphNode, bdRun,
                   bdGraph>>
    /\ UNCHANGED <<sysVars, fnVars, obVars, rnVars, rcVars>>

\* SubGraphBuilder::add_node / add_node_provider (builder.rs 346-371)
AddNode(node_name) ==
    /\ bdBuilder = "SubGraphBuilder"
    /\ bdResult = NoBuild
    /\ node_name \notin bdNodes
    /\ bdNodes' = bdNodes \cup {node_name}
    /\ UNCHANGED <<bdBuilder, bdFields, bdBindResources, bdDiscarded, bdNodeEdges, bdResult,
                   bdState, bdGraphNode, bdRun,
                   bdGraph>>
    /\ UNCHANGED <<sysVars, fnVars, obVars, rnVars, rcVars>>

\* SubGraphBuilder::add_node_edge (builder.rs 373-381)
AddNodeEdge(output_node, input_node) ==
    /\ bdBuilder = "SubGraphBuilder"
    /\ bdResult = NoBuild
    /\ Len(bdNodeEdges) < MaxNodeEdges
    /\ bdNodeEdges' = Append(bdNodeEdges, <<output_node, input_node>>)
    /\ UNCHANGED <<bdBuilder, bdFields, bdBindResources, bdDiscarded, bdNodes, bdResult,
                   bdState, bdGraphNode, bdRun,
                   bdGraph>>
    /\ UNCHANGED <<sysVars, fnVars, obVars, rnVars, rcVars>>

\* build(self) of either builder; a compute node is built in state Creating.
Build ==
    /\ bdBuilder # "None"
    /\ bdResult = NoBuild
    /\ bdResult' = IF bdBuilder = "ComputeNodeBuilder"
                   THEN ComputeNodeBuilderBuild(bdFields, bdBindResources)
                   ELSE SubGraphBuilderBuild(bdFields, bdNodes, bdNodeEdges)
    /\ bdState' = IF bdBuilder = "ComputeNodeBuilder" /\ bdResult'.tag = "Ok"
                  THEN Creating ELSE bdState
    /\ UNCHANGED <<bdBuilder, bdFields, bdBindResources, bdDiscarded, bdNodes, bdNodeEdges,
                   bdGraphNode, bdRun,
                   bdGraph>>
    /\ UNCHANGED <<sysVars, fnVars, obVars, rnVars, rcVars>>

\* ComputeNode::update_state on the built provider.
BuiltUpdateState(job) ==
    /\ bdBuilder = "ComputeNodeBuilder"
    /\ bdResult.tag = "Ok"
    /\ StateAssigned(bdState, job)
    /\ bdState' = UpdateState(bdState, job)
    /\ UNCHANGED <<bdBuilder, bdFields, bdBindResources, bdDiscarded, bdNodes, bdNodeEdges,
                   bdResult, bdGraphNode, bdRun,
                   bdGraph>>
    /\ UNCHANGED <<sysVars, fnVars, obVars, rnVars, rcVars>>

\* ComputeNode::add_node_to_graph for the built provider, through
\* add_or_replace_graph_node.
AddNodeToGraph ==
    /\ bdBuilder = "ComputeNodeBuilder"
    /\ bdResult.tag = "Ok"
    /\ bdGraphNode' = ProviderNode(bdState, bdResult.value[1].binding_resource_info)
    /\ bdGraphNode' # bdGraphNode
    /\ UNCHANGED <<bdBuilder, bdFields, bdBindResources, bdDiscarded, bdNodes, bdNodeEdges,
                   bdResult, bdState, bdRun, bdGraph>>
    /\ UNCHANGED <<sysVars, fnVars, obVars, rnVars, rcVars>>

\* The cache a provider in the given state hands to the node it installs:
\* allocation 1 is the Arc that update_state creates with default() when it
\* builds the ComputeNodeImpl (compute.rs 347); the derived Clone of the node
\* (compute.rs 58) copies the Arc, not the map behind it.  A DummyNode holds
\* no cache (0).
BindResourceCache(state) == IF state.tag = "ReadyToRun" THEN 1 ELSE 0

\* SubGraphBuilder::add_node_provider (builder.rs 346-364) with the built
\* provider: add_node_to_graph installs a node of the provider under node_name.
AddNodeProvider(node_name) ==
    /\ bdBuilder = "ComputeNodeBuilder"
    /\ bdResult.tag = "Ok"
    /\ bdGraph' = AddOrReplaceGraphNode(bdGraph, node_name, BindResourceCache(bdState))
    /\ bdGraph' # bdGraph
    /\ UNCHANGED <<bdBuilder, bdFields, bdBindResources, bdDiscarded, bdNodes, bdNodeEdges,
                   bdResult, bdState, bdGraphNode, bdRun>>
    /\ UNCHANGED <<sysVars, fnVars, obVars, rnVars, rcVars>>

\* The graph runs the installed node while it is the placeholder.
RunDummyNode ==
    /\ bdGraphNode.type_name = "DummyNode"
    /\ bdRun = NotRun
    /\ bdRun' = DummyNodeRun
    /\ UNCHANGED <<bdBuilder, bdFields, bdBindResources, bdDiscarded, bdNodes, bdNodeEdges,
                   bdResult, bdState, bdGraphNode, bdGraph>>
    /\ UNCHANGED <<sysVars, fnVars, obVars, rnVars, rcVars>>

BdNext ==
    \/ \E builder \in {"ComputeNodeBuilder", "SubGraphBuilder"} : NewBuilder(builder)
    \/ \E field \in ComputeNodeBuilderFields \cup SubGraphBuilderFields : SetField(field)
    \/ \E name \in {None} \cup SlotNames, direction \in Directions :
            BindResourceAdd(name, direction)
    \/ BindResourceAddInput
    \/ \E node_name \in BuilderNodes : AddNode(node_name)
    \/ \E output_node \in BuilderNodes, input_node \in BuilderNodes :
            AddNodeEdge(output_node, input_node)
    \/ Build
    \/ \E job \in {JobPending, JobOk} \cup {JobErr(m) : m \in ErrMessages} :
            BuiltUpdateState(job)
    \/ AddNodeToGraph
    \/ \E node_name \in BuilderNodes : AddNodeProvider(node_name)
    \/ RunDummyNode

BdSpec == Init /\ [][BdNext]_vars

(***************************************************************************)
(* Properties                                                              *)
(***************************************************************************)
Built(g) == g \in DOMAIN mainWorld

ProvidersOf(g) == DOMAIN mainWorld[g].providers

IsDeployed(g) ==
    /\ g \in DOMAIN subGraphCache
    /\ subGraphCache[g].graph.tag = "Deployed"
    /\ g \in DOMAIN renderGraph.sub_graphs

\* The step being taken is the run of the named system of the frame.
Runs(system) == Current = system /\ step' # step

\* t is the stage that directly follows s in the readiness state machine.
NextStage(s, t) ==
    \/ s.tag = "Creating" /\ t.tag = "PipelineQueued"
    \/ s.tag = "PipelineQueued" /\ t.tag \in {"PipelineCached", "Err"}
    \/ s.tag = "PipelineCached" /\ t.tag = "ReadyToRun"

Terminal(s) == s.tag \in {"ReadyToRun", "Err"}

\* The part of the live graph that belongs to sub-graph g: its registration,
\* its runner node and the edges from and to the runner.
LivePart(rg, g) ==
    [sub_graph |-> IF g \in DOMAIN rg.sub_graphs THEN <<rg.sub_graphs[g]>> ELSE <<>>,
     runner |-> IF g \in DOMAIN rg.nodes THEN <<rg.nodes[g]>> ELSE <<>>,
     edges |-> [e \in {d \in DOMAIN rg.edges : d.input_node = g \/ d.output_node = g} |->
                    rg.edges[e]]]

\* C1: every sub-graph that was built and whose providers have all reached
\* ReadyToRun is eventually registered in the live graph with deploy state
\* Deployed, provided frames keep running.
C1_DeployedEventually ==
    \A g \in SubGraphs :
        (Built(g) /\ \A p \in ProvidersOf(g) : nodeState[p] = ReadyToRun) ~> IsDeployed(g)

\* C2: a sub-graph that the merge step has spliced into the live graph has only
\* providers whose descriptor, and whose own coarse state, is CanCreateNode; one
\* with a provider in Created, Updating or Err is not deployed.
C2_DeployGatedOnReadiness ==
    \A g \in SubGraphs :
        (deployCount[g] > 0 \/ g \in DOMAIN renderGraph.sub_graphs) =>
            /\ g \in DOMAIN subGraphCache
            /\ \A p \in DOMAIN subGraphCache[g].providers :
                  /\ subGraphCache[g].providers[p].state = CanCreateNode
                  /\ State(nodeState[p]) = CanCreateNode

C2_Witness ==
    /\ "g1" \in DOMAIN subGraphCache
    /\ DOMAIN subGraphCache["g1"].providers = Providers
    /\ IsDeployed("g1")
    /\ deployTick["g1"] = tick

\* C3: the runner node and the named sub-graph are added to the live graph at
\* most once per sub-graph, and a merge step that runs when the sub-graph is
\* already Deployed changes neither its part of the live graph nor its state.
C3_DeployedAtMostOnce ==
    [][\A g \in SubGraphs :
          /\ deployCount'[g] <= 1
          /\ (IsDeployed(g) /\ Runs("Merge")) =>
                /\ subGraphCache'[g] = subGraphCache[g]
                /\ LivePart(renderGraph', g) = LivePart(renderGraph, g)
                /\ deployCount'[g] = deployCount[g]]_vars

C3_Witness ==
    /\ IsDeployed("g1")
    /\ deployCount["g1"] = 1
    /\ step = 0
    /\ deployTick["g1"] < tick

\* The three-tick scenario: sub-graph g was built before the first frame over the
\* single provider p.
ThreeTickScenario(g, p) ==
    /\ Built(g)
    /\ spawnTick[g] = 0
    /\ ProvidersOf(g) = {p}

\* C4: in the three-tick scenario with compilation succeeding on the second
\* tick, the provider is in PipelineQueued, PipelineCached, ReadyToRun after
\* ticks 1, 2, 3, the merge steps of these ticks see the aggregates Updating,
\* Updating, CanCreateNode, and the sub-graph is deployed by the merge step of
\* tick 3.
C4_ThreeTickDeployment ==
    \A g \in SubGraphs, p \in Providers :
        (ThreeTickScenario(g, p) /\ step = 0) =>
            /\ tick = 1 => (nodeState[p] = PipelineQueued /\ ~IsDeployed(g))
            /\ (tick = 2 /\ nodeState[p] = PipelineCached) => ~IsDeployed(g)
            /\ (tick = 3 /\ nodeState[p] = ReadyToRun) =>
                  /\ summaries[g] = <<Updating, Updating, CanCreateNode>>
                  /\ IsDeployed(g)
                  /\ deployTick[g] = 3

\* C5 (as stated): on every tick update_state moves every provider that is not in
\* ReadyToRun or Err by exactly one stage, also while its compile job is pending.
C5_ExactlyOneStagePerTick ==
    [][\A p \in Providers :
          /\ Runs("UpdateProviders") /\ ~Terminal(nodeState[p]) =>
                NextStage(nodeState[p], nodeState'[p])
          /\ ~Runs("UpdateProviders") => nodeState'[p] = nodeState[p]]_vars

\* C5 (amended): on every tick update_state moves every provider that is not in
\* ReadyToRun or Err by exactly one stage, except that a provider in
\* PipelineQueued whose compile job is still pending stays where it is; no
\* provider moves by two stages in a tick, and none moves outside update_state.
C5_OneStagePerTickUnlessPending ==
    [][\A p \in Providers :
          /\ (/\ Runs("UpdateProviders")
              /\ ~Terminal(nodeState[p])
              /\ ~(nodeState[p] = PipelineQueued /\ pipelineCache[p].tag \notin {"Ok", "Err"})) =>
                NextStage(nodeState[p], nodeState'[p])
          /\ (/\ Runs("UpdateProviders")
              /\ nodeState[p] = PipelineQueued
              /\ pipelineCache[p].tag \notin {"Ok", "Err"}) =>
                nodeState'[p] = nodeState[p]
          /\ ~Runs("UpdateProviders") => nodeState'[p] = nodeState[p]]_vars

\* A provider has sat through the update of the second frame in PipelineQueued
\* with its job pending, next to one that has moved on.
C5_Witness ==
    /\ tick = 2
    /\ Current = "Merge"
    /\ nodeState["p1"] = PipelineQueued
    /\ pipelineCache["p1"] = JobPending
    /\ nodeState["p2"] = PipelineCached

\* C6: every change of a provider's readiness state goes to the directly
\* following stage of Creating, PipelineQueued, PipelineCached, ReadyToRun, or
\* from PipelineQueued to Err: no stage is skipped and none is revisited.
C6_StagesInOrder ==
    [][\A p \in Providers :
          nodeState'[p] # nodeState[p] => NextStage(nodeState[p], nodeState'[p])]_vars

C6_Witness ==
    /\ nodeState["p1"] = ReadyToRun
    /\ nodeState["p2"].tag = "Err"

\* C7: a compile failure moves a PipelineQueued provider to Err with the
\* failure's message, and a provider in Err or ReadyToRun keeps its state, is
\* never resubmitted to the compiler and keeps its compile job as it is.
C7_TerminalStatesAbsorbing ==
    [][\A p \in Providers :
          /\ (/\ Runs("UpdateProviders")
              /\ nodeState[p] = PipelineQueued
              /\ pipelineCache[p].tag = "Err") =>
                nodeState'[p] = NodeErr(pipelineCache[p].msg)
          /\ Terminal(nodeState[p]) =>
                /\ nodeState'[p] = nodeState[p]
                /\ queueCount'[p] = queueCount[p]
                /\ pipelineCache'[p] = pipelineCache[p]]_vars

\* Both kinds of terminal provider have just been left alone by update_state.
C7_Witness ==
    /\ Current = "UpdateGraph"
    /\ nodeState["p1"] = NodeErr("e2")
    /\ ~changed["p1"]
    /\ nodeState["p2"] = ReadyToRun
    /\ ~changed["p2"]
    /\ queueCount = [p \in Providers |-> 1]

\* C8: the aggregate is CanCreateNode exactly when every descriptor is
\* CanCreateNode, and it is the Err of one of the descriptors whenever at least
\* one descriptor is Err.
C8_SummaryReadyIffAllReady ==
    fnSummary # NoResult =>
        /\ fnSummary = CanCreateNode <=>
              \A p \in DOMAIN fnProviders : fnProviders[p].state = CanCreateNode
        /\ (\E p \in DOMAIN fnProviders : fnProviders[p].state.tag = "Err") =>
              \E p \in DOMAIN fnProviders :
                  fnProviders[p].state.tag = "Err" /\ fnSummary = fnProviders[p].state

C8_Witness ==
    /\ fnSummary.tag = "Err"
    /\ Cardinality(DOMAIN fnProviders) = 3
    /\ \E p \in DOMAIN fnProviders : fnProviders[p].state = CanCreateNode
    /\ \E p \in DOMAIN fnProviders : fnProviders[p].state = Created
    /\ fnProviders[fnOrder[3]].state.tag = "Err"

NoErr == \A p \in DOMAIN fnProviders : fnProviders[p].state.tag # "Err"
AnyIs(st) == \E p \in DOMAIN fnProviders : fnProviders[p].state = st

\* C9 (as stated): with no provider in Err, the aggregate is Updating if any
\* provider is Updating, and Created only if none is Updating and one is Created.
C9_UpdatingBeforeCreated ==
    (fnSummary # NoResult /\ NoErr) =>
        /\ AnyIs(Updating) => fnSummary = Updating
        /\ fnSummary = Created => (~AnyIs(Updating) /\ AnyIs(Created))

\* C9 (amended): with no provider in Err, the aggregate is Created if any
\* provider is Created, and Updating only if none is Created and one is
\* Updating: Created takes precedence over Updating.
C9_CreatedBeforeUpdating ==
    (fnSummary # NoResult /\ NoErr) =>
        /\ AnyIs(Created) => fnSummary = Created
        /\ fnSummary = Updating <=> (~AnyIs(Created) /\ AnyIs(Updating))

C9_Witness ==
    /\ fnSummary = Created
    /\ NoErr
    /\ AnyIs(Created)
    /\ AnyIs(Updating)
    /\ AnyIs(CanCreateNode)

\* C10: the coarse state is CanCreateNode exactly for ReadyToRun, Err with the
\* same message exactly for Err, Updating for Creating, PipelineQueued and
\* PipelineCached, and never Created.
C10_CoarseState ==
    fnState # NoResult =>
        /\ fnState = CanCreateNode <=> fnNode.tag = "ReadyToRun"
        /\ fnState.tag = "Err" <=> fnNode.tag = "Err"
        /\ fnNode.tag = "Err" => fnState = Err(fnNode.msg)
        /\ fnNode.tag \in {"Creating", "PipelineQueued", "PipelineCached"} =>
              fnState = Updating
        /\ fnState # Created

C10_Witness ==
    /\ fnNode = PipelineCached
    /\ fnState = Updating

(***************************************************************************)
(* Output readback                                                         *)
(***************************************************************************)
\* The state lock is not available to taker t: another operation holds it, or
\* has left it held for ever or poisoned.
LockedByOther(t) == obLock # "free" /\ obLock # t

C12_ReadbackRoundTrip ==
    [][\A t \in Takers :
        (takePc[t] = "locked" /\ takePc'[t] = "idle" /\ obRuns > 0
             /\ obCompleted = obRuns)
            => IF obTakes = 0
               THEN /\ takeResult'[t].tag = "Ok"
                    /\ obContent[takeResult'[t].buf] = obRuns
               ELSE takeResult'[t] = MappedBufferNotFound
    ]_vars

\* C13: a Mapped(b) state changes only by a take that removes b or by an
\* execution that installs ReadyToMap; the scan and the callbacks leave it alone.
C13_MappedPersists ==
    [][(obState.tag = "Mapped" /\ obState' # obState)
          => \/ /\ obLock \in Takers
                /\ obState' = NotCreated
                /\ takeResult'[obLock] = TakeOk(obState.buf)
             \/ /\ obLock = "run"
                /\ obState'.tag = "ReadyToMap"
    ]_vars

(***************************************************************************)
(* Runner node and trigger gate                                            *)
(***************************************************************************)
\* The sub-graph is registered and the runner holds a value for each of its slots.
EnvOk ==
    /\ rnSubGraph.registered
    /\ \A i \in DOMAIN rnSubGraph.input_slots :
          \E j \in DOMAIN rnNodeInputs : rnNodeInputs[j] = rnSubGraph.input_slots[i]

\* The runs that have passed the gate and not finished yet.
Gated == {r \in Runners : rnPc[r] = "gated"}

FlagCount == IF rnFlag THEN 1 ELSE 0

C15_SetConsumedByExecution ==
    (rnTrigger = "Manual") =>
        /\ rnPass + FlagCount <= rnSets
        /\ rnExec + Cardinality(Gated) = rnPass

\* C15 amended: the runs that cleared the flag are no more than the sets, each
\* of them calls run_sub_graph at most once, and it does so exactly when the
\* sub-graph is registered and the runner holds every input the sub-graph
\* declares; otherwise the set is consumed without an execution.
C15_SetConsumedAtMostOnce ==
    (rnTrigger = "Manual") =>
        /\ rnPass + FlagCount <= rnSets
        /\ rnExec + rnFail + Cardinality(Gated) = rnPass
        /\ (EnvOk => rnFail = 0)
        /\ (~EnvOk => rnExec = 0)

\* Two sets, three runs on two threads: two executions and one skipped run.
C15_Witness ==
    /\ rnTrigger = "Manual"
    /\ EnvOk
    /\ rnSets = 2
    /\ rnPass = 2
    /\ rnExec = 2
    /\ rnSkip = 1
    /\ \E r \in Runners : rnResult[r] = Skipped

\* C19: a run that reaches a registered sub-graph gives every input slot of the
\* sub-graph the runner input of the same name, in the sub-graph's slot order;
\* if the sub-graph declares a name the runner holds no value for, the run
\* fails with MissingInput carrying such a name, its index and the sub-graph
\* name, and run_sub_graph is not called.
C19_InputsForwardedByName ==
    \A r \in Runners :
        (rnResult[r].read /\ rnSubGraph.registered) =>
            LET slots == rnSubGraph.input_slots
                held == {rnNodeInputs[j] : j \in DOMAIN rnNodeInputs}
                missing == {i \in DOMAIN slots : slots[i] \notin held}
                result == rnResult[r]
            IN  IF missing = {}
                THEN /\ result.tag = "Ok"
                     /\ result.executed
                     /\ Len(result.input_values) = Len(slots)
                     /\ \A i \in DOMAIN slots : result.input_values[i] = InputValue(slots[i])
                ELSE /\ result.tag = "MissingInput"
                     /\ ~result.executed
                     /\ \E i \in missing : /\ result.slot_name = slots[i]
                                           /\ result.slot_index = i - 1
                     /\ result.graph_name = GraphName

\* The runner declares a, b and the sub-graph b, a: the run forwarded b's value
\* first.
C19_Witness ==
    /\ rnNodeInputs = <<"a", "b">>
    /\ rnSubGraph.registered
    /\ rnSubGraph.input_slots = <<"b", "a">>
    /\ \E r \in Runners : rnResult[r].executed

\* C20 as stated: a run that finds no sub-graph registered under its name
\* returns a run error.
C20_NotFoundIsAnError ==
    \A r \in Runners :
        (rnResult[r].read /\ ~rnSubGraph.registered) => rnResult[r].tag # "Ok"

\* C20 amended: a run that finds no sub-graph registered under its name
\* returns success, having read its inputs and run nothing.
C20_NotFoundIsSuccess ==
    \A r \in Runners :
        (rnResult[r].read /\ ~rnSubGraph.registered) =>
            /\ rnResult[r].tag = "Ok"
            /\ ~rnResult[r].found
            /\ ~rnResult[r].executed

\* A run passed the gate and found no sub-graph.
C20_Witness ==
    /\ ~rnSubGraph.registered
    /\ \E r \in Runners : rnResult[r].read /\ rnPc[r] = "idle"
    /\ rnFail > 0

(***************************************************************************)
(* Resource cache                                                          *)
(***************************************************************************)
\* What the slot of the call just made had returned before that call.
Previous(index) == IF index \in DOMAIN rcReturned THEN rcReturned[index] ELSE NoEntry

\* C16: a request for a slot whose resolved descriptor equals the one of the
\* slot's previous request returns the same instance; a request whose resolved
\* descriptor differs in any field returns an instance that did not exist
\* before; no request ever returns an instance that has been replaced.
C16_SameDescriptorSameInstance ==
    [][(rcLast'.tag = "Ok") =>
          LET previous == Previous(rcLast'.index)
          IN  /\ (previous.desc = rcLast'.desc) => rcLast'.inst = previous.inst
              /\ (previous.desc # rcLast'.desc)
                    => /\ rcLast'.inst \notin 1..rcCreated
                       /\ rcLast'.inst \notin {rcReturned[i].inst : i \in DOMAIN rcReturned}
              /\ rcLast'.inst \notin rcRetired
              /\ rcLast'.inst \notin rcRetired'
    ]_vars

\* A slot went from a descriptor to another and back to the original one: the
\* last request created a third instance, the first one being retired.
C16_Witness ==
    /\ rcLast.tag = "Ok"
    /\ rcLast.created
    /\ \E inst \in rcRetired :
          rcMadeFrom[inst] = [desc |-> rcLast.desc, index |-> rcLast.index]

\* The slots for which this step resolved a descriptor that the cache did not
\* hold for them: no entry, or an entry with another descriptor.
Missed ==
    {i \in DOMAIN rcReturned' :
        i \notin DOMAIN rcCache \/ rcCache[i].desc # rcReturned'[i].desc}

\* C17: after any sequence of requests and executions the cache holds, for
\* exactly the slots requested so far, one entry with the descriptor resolved
\* last for that slot and an instance created from that descriptor; and a step
\* creates one device resource for each slot whose request found no entry or a
\* different descriptor, and none otherwise.
C17_CacheHoldsLastDescriptor ==
    [][/\ DOMAIN rcCache' = DOMAIN rcReturned'
       /\ \A i \in DOMAIN rcReturned' :
             /\ rcCache'[i] = rcReturned'[i]
             /\ rcCache'[i].inst \in DOMAIN rcMadeFrom'
             /\ rcMadeFrom'[rcCache'[i].inst] = [desc |-> rcCache'[i].desc, index |-> i]
       /\ rcCreated' - rcCreated = Cardinality(Missed)
       /\ DOMAIN rcMadeFrom' = 1..rcCreated'
    ]_vars

\* Both output slots are cached, a request has hit and one has replaced an entry.
C17_Witness ==
    /\ Cardinality(DOMAIN rcCache) = 2
    /\ rcRetired # {}
    /\ rcLast.tag = "Ok"
    /\ ~rcLast.created

\* C18: after an execution, the output slot of every InputOutput bind resource
\* holds the value of the input slot of the same name, the cache has no entry
\* for it and no device resource was created for it.
C18_InputOutputPassThrough ==
    (DOMAIN rcOutputs # {}) =>
        \A i \in DOMAIN rcInfo :
            (rcInfo[i].direction = "InputOutput") =>
                /\ rcInfo[i].name \in DOMAIN rcOutputs
                /\ rcOutputs[rcInfo[i].name] = rcInputs[rcInfo[i].name]
                /\ rcBound[rcInfo[i].name] = rcInputs[rcInfo[i].name]
                /\ i \notin DOMAIN rcCache
                /\ \A inst \in DOMAIN rcMadeFrom : rcMadeFrom[inst].index # i

\* An execution that created resources for its outputs and passed upstream
\* value 2 through "io" while "in" held upstream value 1.
C18_Witness ==
    /\ DOMAIN rcOutputs = {"out", "io", "tex"}
    /\ rcInputs = [io |-> Upstream(2), in |-> Upstream(1)]
    /\ rcOutputs["io"] = Upstream(2)
    /\ rcCreated >= 2
(***************************************************************************)
(* Output readback: the declared state machine                             *)
(***************************************************************************)

\* C30: every change of the output-buffer state follows the declared machine.
\* The scan moves a ReadyToMap state to WaitingForMap with one map request and
\* leaves every other state alone; a callback moves WaitingForMap to Mapped on
\* success and to MappingError on failure and changes no other state; a take
\* moves Mapped to NotCreated; an execution installs ReadyToMap.  So Mapped and
\* MappingError come only from WaitingForMap and NotCreated only from a take.
C30_DeclaredMachine ==
    [][/\ (obLock = "scan" /\ obLock' = "free") =>
              IF obState.tag = "ReadyToMap"
              THEN obState' = WaitingForMap(obState.buf) /\ obIssued' = obIssued + 1
              ELSE obState' = obState /\ obIssued' = obIssued
       /\ (obLock = "cb" /\ obLock' = "free") =>
              IF obState.tag = "WaitingForMap"
              THEN obState' = (IF obCb.result = "Ok" THEN Mapped(obState.buf)
                               ELSE MappingError)
              ELSE obState' = obState
       /\ (obState' # obState /\ obState'.tag \in {"Mapped", "MappingError"}) =>
              obLock = "cb" /\ obState.tag = "WaitingForMap"
       /\ (obState' # obState /\ obState' = NotCreated) =>
              obLock \in Takers /\ obState.tag = "Mapped"
    ]_vars

(***************************************************************************)
(* Provider updates and the two copies of a sub-graph                      *)
(***************************************************************************)

\* The copy that holds the embryonic graph of sub-graph g: the main-world
\* component while it is Queued, else the render-world copy while that one is
\* Queued.
Embryo(main, cache, g) ==
    IF main[g].graph.tag = "Queued" THEN <<main[g].graph.graph>>
    ELSE IF g \in DOMAIN cache /\ cache[g].graph.tag = "Queued"
         THEN <<cache[g].graph.graph>>
         ELSE <<>>

\* C23: for a sub-graph that is not yet deployed into the live graph, the run of
\* the graph update of a tick installs, for every provider that changed, the
\* provider's current node under its node name in the embryonic graph that the
\* merge step will later register.
C23_UpdateReachesEmbryo ==
    [][\A g \in SubGraphs :
          (Runs("UpdateGraph") /\ Built(g) /\ g \notin DOMAIN renderGraph.sub_graphs) =>
              \A p \in UpdatedProviders(mainWorld[g]) :
                  LET embryo == Embryo(mainWorld', subGraphCache', g)
                  IN  /\ embryo # <<>>
                      /\ embryo[1].nodes[NodeName(p)] = NodeOf(nodeState[p])
    ]_vars

\* C24: no provider update is lost.  Once every provider of a built sub-graph is
\* ReadyToRun, the live sub-graph eventually holds the real implementation under
\* each provider's node name; and the deploy step keeps the queued updates of a
\* sub-graph that is not registered in the live graph yet.
C24_NoUpdateLost ==
    /\ \A g \in SubGraphs :
          (Built(g) /\ \A p \in ProvidersOf(g) : nodeState[p] = ReadyToRun)
              ~> /\ g \in DOMAIN renderGraph.sub_graphs
                 /\ \A p \in ProvidersOf(g) :
                       renderGraph.sub_graphs[g].nodes[NodeName(p)] = "ComputeNodeImpl"
    /\ [][\A g \in DOMAIN queue :
             (Runs("DeployNodes") /\ g \notin DOMAIN renderGraph.sub_graphs) =>
                 g \in DOMAIN queue' /\ queue'[g] = queue[g]]_vars

\* C25: after every tick the descriptor states of the render-world copy of a
\* sub-graph equal those of the main-world copy, which hold each provider's
\* latest coarse state as of the last update it was seen in.
C25_CopiesAgree ==
    step = 0 =>
        \A g \in DOMAIN subGraphCache :
            \A p \in DOMAIN subGraphCache[g].providers :
                subGraphCache[g].providers[p].state = mainWorld[g].providers[p].state

(***************************************************************************)
(* Deployment: the merge step and the deploy state                         *)
(***************************************************************************)

\* The live-graph edge the claim expects for a buffered outer edge of the
\* sub-graph whose runner is named runner.
ExpectedLiveEdge(edge, runner) ==
    IF edge.kind = "OutputNodeEdge"
    THEN [kind |-> "node", output_node |-> runner, output_slot |-> "",
          input_node |-> edge.node, input_slot |-> ""]
    ELSE [kind |-> IF edge.kind = "InputSlotEdge" THEN "slot" ELSE "node",
          output_node |-> edge.node, output_slot |-> edge.output_slot,
          input_node |-> runner, input_slot |-> edge.input_slot]

\* Some part of the deployment of sub-graph g happens in the step.
DeploysSomething(g) ==
    \/ g \in DOMAIN renderGraph'.sub_graphs /\ g \notin DOMAIN renderGraph.sub_graphs
    \/ g \in DOMAIN renderGraph'.nodes /\ g \notin DOMAIN renderGraph.nodes
    \/ LivePart(renderGraph', g).edges # LivePart(renderGraph, g).edges
    \/ /\ g \in DOMAIN subGraphCache /\ subGraphCache[g].graph.tag # "Deployed"
       /\ subGraphCache'[g].graph.tag = "Deployed"

\* C27: the deployment of a sub-graph is one step of the merge system that
\* registers the embryonic graph under the sub-graph's name, adds the runner
\* node under that name with the embryonic graph's input slots as its declared
\* inputs, adds one live edge per buffered outer edge (none dropped, none
\* duplicated) and sets the deploy state to Deployed.
C27_MergeDeploysAtOnce ==
    [][\A g \in SubGraphs :
          DeploysSomething(g) =>
              /\ Runs("Merge")
              /\ g \in DOMAIN subGraphCache
              /\ subGraphCache[g].graph.tag = "Queued"
              /\ LET sub_graph == subGraphCache[g]
                     buffered == sub_graph.graph.edges
                     expected == {ExpectedLiveEdge(buffered[i], sub_graph.name) :
                                      i \in DOMAIN buffered}
                 IN  /\ sub_graph.name \in DOMAIN renderGraph'.sub_graphs
                     /\ renderGraph'.sub_graphs[sub_graph.name] = sub_graph.graph.graph
                     /\ sub_graph.name \in DOMAIN renderGraph'.nodes
                     /\ renderGraph'.nodes[sub_graph.name].sub_graph_name = sub_graph.name
                     /\ renderGraph'.nodes[sub_graph.name].node_inputs
                            = sub_graph.graph.graph.input_slots
                     /\ \A d \in expected \cup BagToSet(renderGraph'.edges) :
                           CopiesIn(d, renderGraph'.edges)
                               = CopiesIn(d, renderGraph.edges)
                                   + Cardinality({i \in DOMAIN buffered :
                                        ExpectedLiveEdge(buffered[i], sub_graph.name) = d})
                     /\ BagCardinality(renderGraph'.edges)
                            = BagCardinality(renderGraph.edges) + Len(buffered)
                     /\ subGraphCache'[g].graph.tag = "Deployed"
    ]_vars

\* A sub-graph over both providers was deployed: its three buffered outer edges
\* are in the live graph once each, next to its runner and its registration.
C27_Witness ==
    /\ IsDeployed("g1")
    /\ DOMAIN subGraphCache["g1"].providers = Providers
    /\ "g1" \in DOMAIN renderGraph.nodes
    /\ renderGraph.nodes["g1"].node_inputs = <<"in">>
    /\ DOMAIN renderGraph.sub_graphs["g1"].nodes = {"node_p1", "node_p2"}
    /\ BagCardinality(renderGraph.edges) = 3
    /\ BagToSet(renderGraph.edges) =
          {[kind |-> "slot", output_node |-> "outer_src", output_slot |-> "out",
            input_node |-> "g1", input_slot |-> "in"],
           [kind |-> "node", output_node |-> "outer_src", output_slot |-> "",
            input_node |-> "g1", input_slot |-> ""],
           [kind |-> "node", output_node |-> "g1", output_slot |-> "",
            input_node |-> "outer_dst", input_slot |-> ""]}

\* C29: deploy-state transitions are one-way.  The main-world copy only moves
\* from Queued to MovedToRenderWorld and the render-world copy only from Queued
\* to Deployed; no copy is removed, returns to Queued or leaves its final state;
\* and never do both copies hold the embryonic graph (both Queued).
C29_DeployStateOneWay ==
    /\ [](\A g \in DOMAIN mainWorld :
            /\ mainWorld[g].graph.tag \in {"Queued", "MovedToRenderWorld"}
            /\ g \in DOMAIN subGraphCache =>
                  /\ subGraphCache[g].graph.tag \in {"Queued", "Deployed"}
                  /\ mainWorld[g].graph.tag # "Queued")
    /\ [][\A g \in SubGraphs :
             /\ g \in DOMAIN mainWorld =>
                   /\ g \in DOMAIN mainWorld'
                   /\ mainWorld'[g].graph.tag # mainWorld[g].graph.tag =>
                         /\ mainWorld[g].graph.tag = "Queued"
                         /\ mainWorld'[g].graph.tag = "MovedToRenderWorld"
             /\ g \in DOMAIN subGraphCache =>
                   /\ g \in DOMAIN subGraphCache'
                   /\ subGraphCache'[g].graph.tag # subGraphCache[g].graph.tag =>
                         /\ subGraphCache[g].graph.tag = "Queued"
                         /\ subGraphCache'[g].graph.tag = "Deployed"
             /\ (g \in DOMAIN subGraphCache' /\ g \notin DOMAIN subGraphCache) =>
                   /\ mainWorld[g].graph.tag = "Queued"
                   /\ subGraphCache'[g].graph = mainWorld[g].graph
                   /\ mainWorld'[g].graph.tag = "MovedToRenderWorld"
         ]_vars

\* Both moves have happened and a later frame has run over the final states.
C29_Witness ==
    /\ "g1" \in DOMAIN mainWorld
    /\ mainWorld["g1"].graph.tag = "MovedToRenderWorld"
    /\ IsDeployed("g1")
    /\ deployTick["g1"] < tick
    /\ step = 0

BuiltInfo == bdResult.value[1].binding_resource_info

\* C28: for the bind resources of every compute node that was built, the
\* placeholder made from them and the real node made from them declare the same
\* input slots and the same output slots, names, slot types and order alike;
\* and every step that replaces the installed node keeps both lists.
C28_SameSlotShape ==
    /\ [](bdBuilder = "ComputeNodeBuilder" /\ bdResult.tag = "Ok" =>
            LET dummy == FromBindResourceInfo(BuiltInfo, 1, GraphNode("DummyNode", <<>>, <<>>))
                impl == NewComputeNodeImpl(BuiltInfo, 1, GraphNode("ComputeNodeImpl", <<>>, <<>>))
            IN  /\ dummy.input = impl.input
                /\ dummy.output = impl.output
                /\ bdGraphNode # NoNode =>
                       /\ bdGraphNode.input = impl.input
                       /\ bdGraphNode.output = impl.output)
    /\ [][bdGraphNode # NoNode /\ bdGraphNode' # bdGraphNode =>
              /\ bdGraphNode'.input = bdGraphNode.input
              /\ bdGraphNode'.output = bdGraphNode.output]_vars

\* The placeholder of a node with an input and an in-out resource was
\* installed and run, and the real node has replaced it.
C28_Witness ==
    /\ bdGraphNode.type_name = "ComputeNodeImpl"
    /\ bdRun # NotRun
    /\ Len(BuiltInfo) = 2
    /\ \E i \in 1..2 : BuiltInfo[i].direction = "InputOutput"
    /\ \E i \in 1..2 : BuiltInfo[i].direction = "Output"
    /\ Len(bdGraphNode.input) = 1
    /\ Len(bdGraphNode.output) = 2


\* C21 (as claimed): whenever a placeholder node has been run by the graph,
\* the run yielded a failure outcome and not a successful result.
C21_RunFails == bdRun # NotRun => bdRun.result = "Err"

\* C21 (amended): whenever a placeholder node is run by the graph, the run
\* logs an error, returns a successful result and never a failure, and changes
\* neither the installed node nor the provider's state.
C21_RunLogsError ==
    /\ [](bdRun # NotRun => bdRun.result = "Ok" /\ bdRun.log = "error")
    /\ [][bdRun' # bdRun =>
              /\ bdGraphNode.type_name = "DummyNode"
              /\ bdRun'.result = "Ok"
              /\ bdRun'.log = "error"
              /\ UNCHANGED <<bdGraphNode, bdState, bdResult>>]_vars

\* The placeholder of a provider that is still waiting for its pipeline was
\* installed and has been run.
C21_Witness ==
    /\ bdGraphNode.type_name = "DummyNode"
    /\ bdState.tag # "ReadyToRun"
    /\ bdRun # NotRun


\* The required properties the claim lists that were left unset: the fields
\* of the builder, and name or direction of a bind resource handed to add.
UnsetRequired ==
    IF bdBuilder = "ComputeNodeBuilder"
    THEN ({"shader", "entry_point", "dispatch_workgroups_strategy"} \ bdFields)
            \cup {f \in {"name", "direction"} :
                    \E i \in 1..Len(bdBindResources) :
                        bdBindResources[i] = BuildErr(ValueNotDefined(f))}
    ELSE {"name"} \ bdFields

FailedBindResources == {i \in 1..Len(bdBindResources) : bdBindResources[i].tag = "Err"}

\* Some inner edge names a node the sub-graph does not have, or repeats an
\* earlier edge.
InvalidNodeEdge ==
    \E i \in 1..Len(bdNodeEdges) :
        \/ bdNodeEdges[i][1] \notin bdNodes
        \/ bdNodeEdges[i][2] \notin bdNodes
        \/ \E j \in 1..(i - 1) : bdNodeEdges[j] = bdNodeEdges[i]

AnyBuffer(state) ==
    IF state.tag \in {"Mapped", "ReadyToMap", "WaitingForMap"} THEN state.buf ELSE 0

\* C33 (as claimed): an execution leaves ReadyToMap(b) with b of the size of
\* the input; b is the buffer the state held whenever that buffer has this size
\* (unmapped if the state was Mapped), and b is newly allocated otherwise.
C33_ReuseWheneverHeld ==
    [][(obLock = "run" /\ obLock' = "free") =>
          LET held == AnyBuffer(obState)
              b == obState'.buf
          IN  /\ obState' = ReadyToMap(b)
              /\ obRuns' = obRuns + 1
              /\ IF held # 0 /\ obSize[held] = obSize'[b]
                 THEN /\ b = held
                      /\ obAllocated' = obAllocated
                      /\ obState.tag = "Mapped" => obDevice'[b] = "unmapped"
                 ELSE /\ b = obAllocated + 1
                      /\ obAllocated' = b
                      /\ obSize[b] = 0
    ]_vars

\* C33 (amended): an execution leaves ReadyToMap(b) with b of the size of the
\* input; b is the buffer of a Mapped or ReadyToMap state whenever that buffer
\* has this size (unmapped if the state was Mapped), and b is newly allocated
\* otherwise, also when the state was WaitingForMap for a buffer of this size.
C33_ReuseUnlessWaiting ==
    [][(obLock = "run" /\ obLock' = "free") =>
          LET held == IF obState.tag \in {"Mapped", "ReadyToMap"} THEN obState.buf ELSE 0
              b == obState'.buf
          IN  /\ obState' = ReadyToMap(b)
              /\ obRuns' = obRuns + 1
              /\ obContent'[b] = obRuns'
              /\ IF held # 0 /\ obSize[held] = obSize'[b]
                 THEN /\ b = held
                      /\ obAllocated' = obAllocated
                      /\ obState.tag = "Mapped" => obDevice'[b] = "unmapped"
                 ELSE /\ b = obAllocated + 1
                      /\ obAllocated' = b
                      /\ obSize[b] = 0
    ]_vars

\* The second execution met WaitingForMap(1) with the map of buffer 1 still
\* outstanding and an input of the size of buffer 1, and allocated buffer 2.
C33_Witness ==
    /\ obRuns = 2
    /\ obState = ReadyToMap(2)
    /\ obSize[1] = obSize[2]
    /\ obDevice[1] = "pending"
    /\ \E q \in obRequests : q.buf = 1


\* C34: the state lock is not held while a map request is issued, so a step of
\* the scan that issues a request ends with the lock free, whether the device
\* runs the completion callback inside the request or later: the lock is never
\* left held for ever by a blocked scan, nor poisoned by one that panicked.
C34_LockFreeAcrossMapRequest ==
    [][obIssued' # obIssued => obLock' = "free"]_vars

\* C35: a take that returns an error leaves the state as it was: a take_buffer
\* that returns CannotLock or MappedBufferNotFound, and a take_buffer_as that
\* returns one of these or a read error.
C35_FailedTakeKeepsState ==
    [][/\ \A t \in Takers :
              (takeResult'[t] # takeResult[t] /\ takeResult'[t].tag # "Ok")
                  => obState' = obState
       /\ (takeAs' # takeAs /\ takeAs'.tag # "Ok") => obState' = obState
    ]_vars

\* C36: an operation that finds the state lock poisoned panics and returns
\* nothing: no take returns a result, CannotLock included, while the lock is
\* poisoned.
C36_PoisonedLockPanics ==
    [][obLock = "poisoned" => takeResult' = takeResult /\ takeAs' = takeAs]_vars


\* The readback of execution k is resolved: its buffer is Mapped, or the map
\* failed.
Resolved(k) ==
    \/ obState = MappingError
    \/ obState.tag = "Mapped" /\ obContent[obState.buf] = k

\* C32: after an execution that no later execution follows, with the scan
\* running and every map request completing, the state becomes Mapped for the
\* buffer of that execution or MappingError; and a completion callback that
\* meets a ReadyToMap state, being late for an earlier buffer, leaves it alone.
C32_LastExecutionResolved ==
    /\ \A k \in 1..MaxRuns :
          (obRuns = k /\ obState.tag = "ReadyToMap") ~> (obRuns > k \/ Resolved(k))
    /\ [][(obLock = "cb" /\ obState.tag = "ReadyToMap") => obState' = obState]_vars


\* C40.  In every compute node produced by the builder, and in every node
\* implementation derived from it, no two bind resources have the same name:
\* there is one bind resource for each name, and so at most one input slot and
\* at most one output slot of that name.
C40_DistinctNames ==
    /\ (bdBuilder = "ComputeNodeBuilder" /\ bdResult.tag = "Ok") =>
            \A i, j \in 1..Len(BuiltInfo) :
                BuiltInfo[i].name = BuiltInfo[j].name => i = j
    /\ \A i, j \in 1..Len(bdGraphNode.input) :
            bdGraphNode.input[i].name = bdGraphNode.input[j].name => i = j
    /\ \A i, j \in 1..Len(bdGraphNode.output) :
            bdGraphNode.output[i].name = bdGraphNode.output[j].name => i = j


\* C38.  A resource cache belongs to exactly one node: no two nodes of a graph
\* read or write the same cache, also when they are installed from the same
\* provider under different node names.
C38_CacheOfOneNode ==
    \A m, n \in DOMAIN bdGraph :
        (m # n /\ bdGraph[m] # 0 /\ bdGraph[n] # 0) => bdGraph[m] # bdGraph[n]


(***************************************************************************)
(* Resource cache: one execution, one instance per output                  *)
(***************************************************************************)

C39_DestroyedProviderRemoved ==
    \A p \in Providers :
        (~Alive(p) /\ tick > despawnTick[p] + 1) =>
            \A g \in DOMAIN mainWorld : p \notin DOMAIN mainWorld[g].providers

====
